---- MODULE Spec2Model ----
(***************************************************************************)
(* Garrido Sportech commercial agent.                                      *)
(*                                                                         *)
(* The model covers the tool-calling conversation loop of src/agent.py    *)
(* (CommercialAgent: chat, chat_stream, reset, the two round loops and the *)
(* message sanitizer), the tool registry of src/tools.py (execute_tool),  *)
(* the catalog operations of src/catalog.py the tools call, and the        *)
(* session map and /chat, /reset handlers of src/api.py.                   *)
(*                                                                         *)
(* Python dictionaries are TLA+ records (functions on strings); a missing *)
(* key is a string outside DOMAIN.  Python None is the string None below.  *)
(* Texts are TLA+ strings, joined with \o.  An exception raised by a       *)
(* called function is a result record with raised = TRUE.                  *)
(***************************************************************************)
EXTENDS Integers, Sequences, FiniteSets, TLC

\* ---------------------------------------------------------------- bounds

\* MAX_TOOL_ROUNDS is read from the environment (src/config.py:20, default
\* 10); the model runs the loop with a smaller configured value.
MAX_TOOL_ROUNDS == 2
\* Messages in one agent's history: a turn starts, and the service answers
\* with a final answer or with tool requests, only while the messages it
\* appends fit.
MaxHistory == 6
\* Tool requests in one service response.
MaxBatch == 2
\* Chunks the service delivers in one streamed response.
MaxChunks == 2
\* Entries the /chat shell keeps in the session map (MAX_SESSIONS is 100 in
\* src/api.py:24; the model runs the same code with a smaller ceiling).
MAX_SESSIONS == 2

MaxApiHistory == 4

MaxApiMessages == 5

MaxQuantity == 40

MaxShareLen == 2

MaxScript == 3

\* ------------------------------------------------------- values and texts

None == "<None>"

SYSTEM_PROMPT == "Eres el asistente tecnico oficial de Garrido Sportech"

FALLBACK_CHAT == "Se alcanzo el limite de iteraciones. Por favor, reformula tu pregunta."

FALLBACK_STREAM == "\nSe alcanzo el limite de iteraciones."

\* dict.get(key, default)
Get(d, key, default) == IF key \in DOMAIN d THEN d[key] ELSE default

\* Python truthiness of a text-or-None value: None and "" are falsy.
TruthyText(v) == v # None /\ v # ""

\* `v or ""` on a text-or-None value.
OrEmpty(v) == IF TruthyText(v) THEN v ELSE ""

\* "".join(parts)
RECURSIVE Join(_)
Join(parts) == IF parts = <<>> THEN "" ELSE Head(parts) \o Join(Tail(parts))

\* ------------------------------------------------------------- messages

SystemMsg == [role |-> "system", content |-> SYSTEM_PROMPT]

UserMsg(u) == [role |-> "user", content |-> u]

\* isinstance(tc, dict): an entry of tool_calls that is not a dict is
\* written [nondict |-> v].
IsDict(tc) == "nondict" \notin DOMAIN tc

SanitizeCall(tc) ==
    [id |-> tc["id"], type |-> Get(tc, "type", "function"), function |-> tc["function"]]

\* Faulty variant of SanitizeTool: the content is encoded once more.
SanitizeToolEncodes(msg) ==
    [role |-> "tool", tool_call_id |-> Get(msg, "tool_call_id", ""),
     content |-> "\"" \o Get(msg, "content", "") \o "\""]

\* The branch of _sanitize_message for role "tool".
SanitizeTool(msg) ==
    [role |-> "tool", tool_call_id |-> Get(msg, "tool_call_id", ""),
     content |-> Get(msg, "content", "")]

\* A missing, None or empty tool_calls is the empty sequence.
_sanitize_message(msg) ==
    LET role == Get(msg, "role", "") IN
    IF role = "system" THEN
        [role |-> "system", content |-> Get(msg, "content", "")]
    ELSE IF role = "user" THEN
        [role |-> "user", content |-> Get(msg, "content", "")]
    ELSE IF role = "assistant" THEN
        LET calls == Get(msg, "tool_calls", <<>>)
            dicts == SelectSeq(calls, IsDict)
            sanitized_calls == [i \in 1..Len(dicts) |-> SanitizeCall(dicts[i])]
            content == OrEmpty(Get(msg, "content", None))
        IN  IF Len(calls) > 0 /\ Len(sanitized_calls) > 0
            THEN [role |-> "assistant", content |-> content,
                  tool_calls |-> sanitized_calls]
            ELSE [role |-> "assistant", content |-> content]
    ELSE IF role = "tool" THEN SanitizeTool(msg)
    ELSE [role |-> role, content |-> Get(msg, "content", "")]

\* -------------------------------------------------------------- catalog

\* The three products of CATALOG, in catalog order, with the fields that
\* the search, the quote and the tools read (spec_values is
\* specs.values(), in the dict's order; the flag emoji that ends the last
\* value of each is left out).
CATALOG ==
    << [id |-> "GF-ALPHA", name |-> "G-FORCE α (Alpha)",
        category |-> "Placas de Fuerza", price |-> 850000,
        description |->
           "Sistema de placas de fuerza para evaluación de saltos e isometrías. Conjunto de 2 placas con 4 celdas por placa y 1 canal por placa. Incluye software propio de adquisición y análisis desarrollado en Python.",
        spec_values |->
           << "Conjunto de 2 placas de fuerza",
           "4 celdas por placa",
           "1 canal por placa",
           "Hasta 1000 Hz",
           "Fuerza, curva fuerza-tiempo, impulso, RFD y métricas derivadas (según software y protocolo)",
           "CSV y otros formatos definidos por el software",
           "Chilena" >>,
        use_cases |->
           << "Evaluación de saltos: CMJ, SJ, DJ",
           "Evaluación de isometrías (según configuración)",
           "Análisis de curva fuerza-tiempo",
           "Cálculo de RFD e impulso" >>,
        tags |->
           << "fuerza",
           "placa",
           "salto",
           "CMJ",
           "SJ",
           "DJ",
           "isometría",
           "RFD",
           "impulso",
           "curva fuerza-tiempo" >>,
        compatible_with |-> <<"GF-CELL">>],
       [id |-> "GF-CELL", name |-> "G-FORCE (Celda Individual)",
        category |-> "Celdas de Carga", price |-> 300000,
        description |->
           "Celda de carga tipo S de 500 kg con adaptadores de muslo. Diseñada para pruebas isométricas: IMTP, aducción, abducción, empujes y tracciones según montaje.",
        spec_values |->
           << "Tipo S",
           "500 kg",
           "Hasta 1000 Hz",
           "Fuerza máxima, curva fuerza-tiempo, impulso, RFD (según software y protocolo)",
           "CSV y otros formatos",
           "Chilena" >>,
        use_cases |->
           << "IMTP (Isometric Mid-Thigh Pull)",
           "Aducción isométrica",
           "Abducción isométrica",
           "Empujes y tracciones isométricas (según montaje)" >>,
        tags |->
           << "fuerza",
           "celda",
           "isometría",
           "IMTP",
           "aducción",
           "abducción",
           "tipo S",
           "500kg" >>,
        compatible_with |-> <<"GF-ALPHA">>],
       [id |-> "GJ-001", name |-> "G-JUMP (Plataforma de Contacto)",
        category |-> "Plataformas de Contacto", price |-> 95000,
        description |->
           "Plataforma de contacto refaccionada para medición práctica en terreno. Mide tiempo de vuelo y tiempo de contacto, calcula altura estimada de salto y RSI-mod. Software desarrollado en Python con librerías de pygame.",
        spec_values |->
           << "Plataforma de contacto refaccionada",
           "Tiempo de vuelo y tiempo de contacto",
           "Altura estimada de salto (por tiempo de vuelo) y RSI-mod",
           "Desarrollado en Python (pygame)",
           "Medición práctica en terreno",
           "Chilena" >>,
        use_cases |->
           << "Medición de altura de salto en terreno",
           "Evaluación de RSI-mod (Reactive Strength Index modificado)",
           "Monitoreo práctico de rendimiento en salto" >>,
        tags |->
           << "salto",
           "contacto",
           "vuelo",
           "RSI",
           "altura",
           "terreno",
           "plataforma" >>,
        compatible_with |-> <<"GF-ALPHA">>] >>

\* c.upper() and c.lower() on one character.
UpperChar(c) ==
    CASE c = "a" -> "A" [] c = "b" -> "B" [] c = "c" -> "C" [] c = "d" -> "D"
      [] c = "e" -> "E" [] c = "f" -> "F" [] c = "g" -> "G" [] c = "h" -> "H"
      [] c = "i" -> "I" [] c = "j" -> "J" [] c = "k" -> "K" [] c = "l" -> "L"
      [] c = "m" -> "M" [] c = "n" -> "N" [] c = "o" -> "O" [] c = "p" -> "P"
      [] c = "q" -> "Q" [] c = "r" -> "R" [] c = "s" -> "S" [] c = "t" -> "T"
      [] c = "u" -> "U" [] c = "v" -> "V" [] c = "w" -> "W" [] c = "x" -> "X"
      [] c = "y" -> "Y" [] c = "z" -> "Z" [] OTHER -> c

LowerChar(c) ==
    CASE c = "A" -> "a" [] c = "B" -> "b" [] c = "C" -> "c" [] c = "D" -> "d"
      [] c = "E" -> "e" [] c = "F" -> "f" [] c = "G" -> "g" [] c = "H" -> "h"
      [] c = "I" -> "i" [] c = "J" -> "j" [] c = "K" -> "k" [] c = "L" -> "l"
      [] c = "M" -> "m" [] c = "N" -> "n" [] c = "O" -> "o" [] c = "P" -> "p"
      [] c = "Q" -> "q" [] c = "R" -> "r" [] c = "S" -> "s" [] c = "T" -> "t"
      [] c = "U" -> "u" [] c = "V" -> "v" [] c = "W" -> "w" [] c = "X" -> "x"
      [] c = "Y" -> "y" [] c = "Z" -> "z" [] OTHER -> c

\* str.upper() and str.lower(), character by character (the text is halved
\* until one character is left); the texts of the model have no accented
\* capital.
RECURSIVE Upper(_)
Upper(s) ==
    IF Len(s) <= 1 THEN UpperChar(s)
    ELSE Upper(SubSeq(s, 1, Len(s) \div 2)) \o Upper(SubSeq(s, Len(s) \div 2 + 1, Len(s)))

RECURSIVE Lower(_)
Lower(s) ==
    IF Len(s) <= 1 THEN LowerChar(s)
    ELSE Lower(SubSeq(s, 1, Len(s) \div 2)) \o Lower(SubSeq(s, Len(s) \div 2 + 1, Len(s)))

\* _BY_ID.get(product_id.upper()): an Optional[Product], written as the
\* sequence of the products found: <<>> is None, <<p>> is the product p.
get_product_by_id(product_id) ==
    SelectSeq(CATALOG, LAMBDA p : p.id = Upper(product_id))

\* " ".join(parts)
RECURSIVE JoinSpace(_)
JoinSpace(parts) ==
    IF parts = <<>> THEN ""
    ELSE IF Len(parts) = 1 THEN parts[1]
    ELSE parts[1] \o " " \o JoinSpace(Tail(parts))

\* needle in hay
In(needle, hay) ==
    \E i \in 1..(Len(hay) - Len(needle) + 1) :
        SubSeq(hay, i, i + Len(needle) - 1) = needle

\* Lines 160-167: the text a query is looked up in.  The tags are joined as
\* they are; every other field is lower-cased.
searchable(p) ==
    JoinSpace(<< Lower(p.name), Lower(p.description), JoinSpace(p.tags),
                 Lower(JoinSpace(p.spec_values)), Lower(JoinSpace(p.use_cases)),
                 Lower(p.category) >>)

\* max_price None is NoPrice.
NoPrice == -1

search_products(query, category, max_price) ==
    LET query_lower == Lower(query)
        keep(p) ==
            /\ ~(category # "" /\ Lower(p.category) # Lower(category))
            /\ ~(max_price # NoPrice /\ p.price > max_price)
            /\ ~(query_lower # "" /\ ~In(query_lower, searchable(p)))
    IN  SelectSeq(CATALOG, keep)

\* A Python int has no upper limit.  The amounts of a quote are written as
\* their digits in base 2^11, the lowest first, without leading zeros.
LIMB == 2 ^ 11

RECURSIVE Trim(_)
Trim(x) ==
    IF x # <<>> /\ x[Len(x)] = 0 THEN Trim(SubSeq(x, 1, Len(x) - 1)) ELSE x

RECURSIVE FromInt(_)
FromInt(n) == IF n = 0 THEN <<>> ELSE <<n % LIMB>> \o FromInt(n \div LIMB)

LimbAt(x, i) == IF i \in 1..Len(x) THEN x[i] ELSE 0

\* The digits of a number given by coefficients that may exceed a digit.
RECURSIVE Carry(_, _)
Carry(x, c) ==
    IF x = <<>> THEN FromInt(c)
    ELSE <<(x[1] + c) % LIMB>> \o Carry(Tail(x), (x[1] + c) \div LIMB)

BigAdd(x, y) ==
    LET n == IF Len(x) > Len(y) THEN Len(x) ELSE Len(y) IN
    Trim(Carry([i \in 1..n |-> LimbAt(x, i) + LimbAt(y, i)], 0))

\* The sum of x[i] * y[k + 1 - i] for i in 1..n.
RECURSIVE Conv(_, _, _, _)
Conv(x, y, k, n) ==
    IF n = 0 THEN 0 ELSE LimbAt(x, n) * LimbAt(y, k + 1 - n) + Conv(x, y, k, n - 1)

BigMul(x, y) ==
    IF x = <<>> \/ y = <<>> THEN <<>>
    ELSE Trim(Carry([k \in 1..(Len(x) + Len(y) - 1) |-> Conv(x, y, k, k)], 0))

\* The number of binary digits of x.
BitLen(x) ==
    IF x = <<>> THEN 0
    ELSE 11 * (Len(x) - 1)
            + (CHOOSE b \in 1..11 : 2 ^ (b - 1) <= x[Len(x)] /\ x[Len(x)] < 2 ^ b)

\* Binary digit i of x, the lowest being digit 0.
Bit(x, i) == (LimbAt(x, (i \div 11) + 1) \div (2 ^ (i % 11))) % 2

\* x // 2^s
ShiftRight(x, s) ==
    LET a == s \div 11
        b == s % 11
    IN  Trim([k \in 1..(Len(x) - a) |->
                (LimbAt(x, k + a) \div (2 ^ b))
                    + (LimbAt(x, k + a + 1) % (2 ^ b)) * (2 ^ (11 - b))])

\* x * 2^s
ShiftLeft(x, s) ==
    IF x = <<>> THEN <<>>
    ELSE [k \in 1..(s \div 11) |-> 0] \o BigMul(x, <<2 ^ (s % 11)>>)

\* x / 2^s to the nearest integer, a tie going to the even one: the rounding
\* of IEEE 754 arithmetic and of round().
RoundShift(x, s) ==
    IF s = 0 THEN x
    ELSE LET q == ShiftRight(x, s)
             up == /\ Bit(x, s - 1) = 1
                   /\ \/ \E i \in 0..(s - 2) : Bit(x, i) = 1
                      \/ Bit(q, 0) = 1
         IN  IF up THEN BigAdd(q, <<1>>) ELSE q

\* The double nearest to x: x kept to 53 binary digits.
ToDouble(x) ==
    IF BitLen(x) <= 53 THEN x
    ELSE ShiftLeft(RoundShift(x, BitLen(x) - 53), BitLen(x) - 53)

\* The literal 0.19 of line 191 is the double 6845471433603154 / 2^55; these
\* are the digits of the numerator.
DOUBLE_0_19 == <<82, 983, 1556, 245, 389>>

\* round(subtotal * 0.19), line 191: subtotal becomes a double, the product
\* is the double nearest to the exact product, round() gives the nearest int.
RoundTimes0_19(subtotal) ==
    RoundShift(ToDouble(BigMul(ToDouble(subtotal), DOUBLE_0_19)), 55)

\* x // 10 and str(x)
RECURSIVE Rem10(_, _)
Rem10(x, i) == IF i > Len(x) THEN 0 ELSE (Rem10(x, i + 1) * LIMB + x[i]) % 10

Quot10(x) == Trim([i \in 1..Len(x) |-> (Rem10(x, i + 1) * LIMB + x[i]) \div 10])

RECURSIVE Digits(_)
Digits(x) == IF x = <<>> THEN "" ELSE Digits(Quot10(x)) \o ToString(Rem10(x, 1))

BigStr(x) == IF x = <<>> THEN "0" ELSE Digits(x)

calculate_quote(product_id, quantity) ==
    LET found == get_product_by_id(product_id) IN
    IF found = <<>>
    THEN [error |-> "Producto " \o product_id \o " no encontrado."]
    ELSE LET product == found[1]
             unit_price == FromInt(product.price)
             subtotal == BigMul(unit_price, quantity)
             iva == RoundTimes0_19(subtotal)
         IN  [product_id |-> product.id, product_name |-> product.name,
              quantity |-> quantity, unit_price_clp |-> unit_price,
              subtotal_neto |-> subtotal, iva_19 |-> iva,
              total_con_iva |-> BigAdd(subtotal, iva), currency |-> "CLP"]

get_compatible_products(product_id) ==
    LET found == get_product_by_id(product_id) IN
    IF found = <<>> THEN <<>>
    ELSE LET resolved == SelectSeq(found[1].compatible_with,
                                   LAMBDA pid : get_product_by_id(pid) # <<>>)
         IN  [i \in 1..Len(resolved) |-> get_product_by_id(resolved[i])[1]]

\* ---------------------------------------------------------------- tools

\* The nine names execute_tool dispatches on.
TOOL_NAMES ==
    {"buscar_sistemas", "ver_ficha_tecnica", "cotizar", "sistemas_complementarios",
     "comparar_sistemas", "obtener_contacto", "ver_publicaciones", "ver_descargas",
     "listar_catalogo"}

\* The result of a call: the text returned, or the exception raised.
Return(text) == [raised |-> FALSE, exc |-> "", text |-> text]

Raise(exc) == [raised |-> TRUE, exc |-> exc, text |-> ""]

\* sep.join(parts)
RECURSIVE JoinWith(_, _)
JoinWith(sep, parts) ==
    IF parts = <<>> THEN ""
    ELSE IF Len(parts) = 1 THEN parts[1]
    ELSE parts[1] \o sep \o JoinWith(sep, Tail(parts))

\* json.dumps of the dictionaries execute_tool builds.  Product summaries
\* are cut down to id and price.
JsonStr(s) == "\"" \o s \o "\""

JsonObj1(key, value) == "{" \o JsonStr(key) \o ": " \o value \o "}"

JsonList(items) == "[" \o JoinWith(", ", items) \o "]"

product_summary(p) ==
    "{\"id\": " \o JsonStr(p.id) \o ", \"price_clp\": " \o ToString(p.price) \o "}"

JsonQuote(quote) ==
    IF "error" \in DOMAIN quote THEN JsonObj1("error", JsonStr(quote.error))
    ELSE "{\"product_id\": " \o JsonStr(quote.product_id)
         \o ", \"quantity\": " \o BigStr(quote.quantity)
         \o ", \"unit_price_clp\": " \o BigStr(quote.unit_price_clp)
         \o ", \"subtotal_neto\": " \o BigStr(quote.subtotal_neto)
         \o ", \"iva_19\": " \o BigStr(quote.iva_19)
         \o ", \"total_con_iva\": " \o BigStr(quote.total_con_iva) \o "}"

\* The text execute_tool returns for a name it does not know.
UnknownToolText(name) ==
    JsonObj1("error", JsonStr("Herramienta '" \o name \o "' no reconocida."))

\* Faulty variant of UnknownTool: an unknown name is an exception.
UnknownToolRaises(name) == Raise("ValueError")

\* The else branch of execute_tool: the name is none of the nine.
UnknownTool(name) == Return(UnknownToolText(name))

\* arguments["key"] on a dict without the key raises KeyError.
execute_tool(name, arguments) ==
    IF name = "buscar_sistemas" THEN
        LET results == search_products(Get(arguments, "query", ""),
                                       Get(arguments, "category", ""),
                                       Get(arguments, "max_price", NoPrice))
        IN  IF results = <<>>
            THEN Return(JsonObj1("message",
                        JsonStr("No se encontraron sistemas con esos criterios.")))
            ELSE Return("{\"count\": " \o ToString(Len(results)) \o ", \"systems\": "
                        \o JsonList([i \in 1..Len(results) |-> product_summary(results[i])]) \o "}")
    ELSE IF name = "ver_ficha_tecnica" THEN
        IF "product_id" \notin DOMAIN arguments THEN Raise("KeyError")
        ELSE LET p == get_product_by_id(arguments.product_id) IN
             IF p = <<>>
             THEN Return(JsonObj1("error",
                         JsonStr("Sistema '" \o arguments.product_id \o "' no encontrado.")))
             ELSE Return(product_summary(p[1]))
    ELSE IF name = "cotizar" THEN
        IF "product_id" \notin DOMAIN arguments \/ "quantity" \notin DOMAIN arguments
        THEN Raise("KeyError")
        ELSE Return(JsonQuote(calculate_quote(arguments.product_id, arguments.quantity)))
    ELSE IF name = "sistemas_complementarios" THEN
        IF "product_id" \notin DOMAIN arguments THEN Raise("KeyError")
        ELSE LET compatibles == get_compatible_products(arguments.product_id) IN
             IF compatibles = <<>>
             THEN Return(JsonObj1("message",
                         JsonStr("No se encontraron sistemas complementarios.")))
             ELSE Return(JsonObj1("complementary_systems",
                         JsonList([i \in 1..Len(compatibles) |-> product_summary(compatibles[i])])))
    ELSE IF name = "comparar_sistemas" THEN
        IF "product_ids" \notin DOMAIN arguments THEN Raise("KeyError")
        ELSE LET ids == arguments.product_ids
                 found == SelectSeq(ids, LAMBDA pid : get_product_by_id(pid) # <<>>)
                 missing == SelectSeq(ids, LAMBDA pid : get_product_by_id(pid) = <<>>)
                 compared == JsonList([i \in 1..Len(found) |->
                                 product_summary(get_product_by_id(found[i])[1])])
             IN  IF missing # <<>>
                 THEN Return("{\"systems_compared\": " \o compared \o ", \"not_found\": "
                             \o JsonList([i \in 1..Len(missing) |-> JsonStr(missing[i])]) \o "}")
                 ELSE Return(JsonObj1("systems_compared", compared))
    ELSE IF name = "obtener_contacto" THEN
        Return(JsonObj1("empresa", JsonStr("Garrido Sportech")))
    ELSE IF name = "ver_publicaciones" THEN
        Return(JsonObj1("publicaciones", JsonList(<<JsonStr("mdpi-11457"), JsonStr("mdpi-12409")>>)))
    ELSE IF name = "ver_descargas" THEN
        Return(JsonObj1("software_windows", JsonList(<<JsonStr("GFORCE_Pro_v8.exe")>>)))
    ELSE IF name = "listar_catalogo" THEN
        Return(JsonObj1("catalog", JsonList([i \in 1..Len(CATALOG) |-> product_summary(CATALOG[i])])))
    ELSE UnknownTool(name)

\* --------------------------------------------------- the LLM service

\* Argument payloads (tool_call.function.arguments) the service delivers.
ARGS_EMPTY == "{}"

ARGS_QUOTE == "{\"product_id\": \"gf-alpha\", \"quantity\": 2}"

ARGS_NO_ID == "{\"quantity\": 2}"

ARGS_UNKNOWN_ID == "{\"product_id\": \"ZZ-9\"}"

ARGS_MALFORMED == "{\"query\": "

\* json.loads on those payloads: the dict, or JSONDecodeError.
json_loads(text) ==
    CASE text = ARGS_EMPTY -> [raised |-> FALSE, value |-> <<>>]
      [] text = ARGS_QUOTE ->
            [raised |-> FALSE, value |-> [product_id |-> "gf-alpha", quantity |-> FromInt(2)]]
      [] text = ARGS_NO_ID -> [raised |-> FALSE, value |-> [quantity |-> FromInt(2)]]
      [] text = ARGS_UNKNOWN_ID -> [raised |-> FALSE, value |-> [product_id |-> "ZZ-9"]]
      [] OTHER -> [raised |-> TRUE, value |-> <<>>]

\* The tool requests the service chooses among: (name, arguments).
TOOL_REQUESTS ==
    {      [name |-> "cotizar", arguments |-> ARGS_QUOTE],
      [name |-> "cotizar", arguments |-> ARGS_NO_ID],
      [name |-> "enviar_correo", arguments |-> ARGS_EMPTY],
      [name |-> "buscar_sistemas", arguments |-> ARGS_MALFORMED] }

\* message.content of a response without tool requests.
FINAL_CONTENTS == {None, "", "Hola"}

\* delta.content of a streamed chunk.
DELTAS == {None, "", "Ho", "la"}

\* What the user types.
UTTERANCES == {"Precio de GF-ALPHA"}

CallId(n) == "call_" \o ToString(n)

\* response.choices[0].message of a response that requests the tools
\* `reqs`, in answer to a transcript of `n` messages.  The service numbers
\* its requests so that no id repeats within a transcript.
ToolMessage(reqs, n) ==
    [content |-> None,
     tool_calls |-> [i \in 1..Len(reqs) |->
                        [id |-> CallId(n + i), type |-> "function",
                         function |-> reqs[i]]]]

FinalMessage(content) == [content |-> content, tool_calls |-> <<>>]

\* The responses the service may give to a probe call on a transcript of
\* `n` messages, the history being kept within `cap` messages.
ProbeResponses(n, cap) ==
    {FinalMessage(c) : c \in {x \in FINAL_CONTENTS : n + 1 <= cap}}
    \cup {ToolMessage(reqs, n) :
            reqs \in UNION {[1..k -> TOOL_REQUESTS] :
                              k \in {j \in 1..MaxBatch : n + 1 + j <= cap}}}

\* message.model_dump(): the message as a dict, with the fields the client
\* library attaches besides role, content and tool_calls.
model_dump(message) ==
    [role |-> "assistant", content |-> message.content,
     tool_calls |-> message.tool_calls, refusal |-> None, function_call |-> None]

\* ------------------------------------------------------------ the state

VARIABLES
    agent,      \* key -> a CommercialAgent and the position of its running turn
    sessions,   \* the keys of api.sessions, in insertion order
    cur,        \* the session whose /chat request is being handled, or None
    http,       \* the last HTTP response of the shell
    script,     \* the scripted service of the equivalence runs
    probe       \* the message under test of the sanitizer runs

vars == <<agent, sessions, cur, http, script, probe>>

\* CommercialAgent.__init__: messages and tool_log are the object's fields.
\* The rest is the running turn: op is the operation last called, pc the
\* place the turn has reached, round the loop iterations completed,
\* tool_calls/idx/fn_args the batch being processed, full_response the
\* streamed fragments, susp whether the generator is suspended at a yield,
\* arg the utterance a generator was created with.  outcome, returned,
\* yielded and calls are what the caller and the service saw of the turn:
\* how it ended, chat's return value, the fragments chat_stream yielded,
\* the completion calls made; saw_final tells whether a response without
\* tool requests arrived; dropped is the number of messages the last
\* operation, a reset, removed.
NewAgent ==
    [messages |-> <<SystemMsg>>, tool_log |-> <<>>,
     op |-> "none", pc |-> "idle", round |-> 0,
     tool_calls |-> <<>>, idx |-> 0, fn_args |-> <<>>,
     full_response |-> <<>>, nchunks |-> 0, susp |-> FALSE, arg |-> "",
     outcome |-> "none", returned |-> None, yielded |-> <<>>, calls |-> 0,
     saw_final |-> FALSE, dropped |-> 0, before |-> <<>>, log_before |-> <<>>,
     turns |-> 0]

AppendMessage(ag, m) == [ag EXCEPT !.messages = Append(@, m)]

\* Lines 102-104: the transcript sent with a completion call.
_clean_messages(ag) == [i \in 1..Len(ag.messages) |-> _sanitize_message(ag.messages[i])]

\* The body of chat or of chat_stream starts to run: one more turn since
\* the last reset.
Started(ag) == [ag EXCEPT !.turns = @ + 1]

\* Lines 95-98: the summary counts the User messages and the log entries.
get_conversation_summary(ag) ==
    LET user_msgs == SelectSeq(ag.messages, LAMBDA m : m.role = "user") IN
    "Conversación: " \o ToString(Len(user_msgs)) \o " mensajes del usuario, "
        \o ToString(Len(ag.tool_log)) \o " herramientas usadas."

\* A turn starts: the caller's view of the previous turn is dropped.
BeginTurn(ag, op) ==
    [ag EXCEPT !.op = op, !.outcome = "running", !.returned = None,
               !.yielded = <<>>, !.calls = 0, !.saw_final = FALSE, !.round = 0,
               !.dropped = 0, !.before = ag.messages, !.log_before = ag.tool_log]

\* A turn ends (return, exception or generator close): its locals are gone.
EndTurn(ag, outcome) ==
    [ag EXCEPT !.pc = "idle", !.outcome = outcome, !.susp = FALSE, !.round = 0,
               !.tool_calls = <<>>, !.idx = 0, !.fn_args = <<>>,
               !.full_response = <<>>, !.nchunks = 0, !.arg = ""]

\* Faulty variant of Exhausted: the fallback message is also appended to the
\* history.
ExhaustedAppendsFallback(ag) ==
    IF ag.op = "chat"
    THEN EndTurn([AppendMessage(ag, [role |-> "assistant", content |-> FALLBACK_CHAT])
                    EXCEPT !.returned = FALLBACK_CHAT], "exhausted")
    ELSE EndTurn([AppendMessage(ag, [role |-> "assistant", content |-> FALLBACK_STREAM])
                    EXCEPT !.yielded = Append(@, FALLBACK_STREAM)], "exhausted")

\* Faulty variant of Exhausted: the messages of the turn are taken back.
ExhaustedRollsBack(ag) ==
    IF ag.op = "chat"
    THEN EndTurn([ag EXCEPT !.returned = FALLBACK_CHAT, !.messages = ag.before],
                 "exhausted")
    ELSE EndTurn([ag EXCEPT !.yielded = Append(@, FALLBACK_STREAM),
                            !.messages = ag.before], "exhausted")

\* Lines 141-142 and 198: the loop ran out of rounds.
Exhausted(ag) ==
    IF ag.op = "chat"
    THEN EndTurn([ag EXCEPT !.returned = FALLBACK_CHAT], "exhausted")
    ELSE EndTurn([ag EXCEPT !.yielded = Append(@, FALLBACK_STREAM)], "exhausted")

\* Faulty variant of RoundsLeft: one iteration too many.
RoundsLeftOneMore(round) == round <= MAX_TOOL_ROUNDS

\* for _ in range(MAX_TOOL_ROUNDS): is there another iteration?
RoundsLeft(round) == round < MAX_TOOL_ROUNDS

LoopHead(ag) ==
    IF RoundsLeft(ag.round) THEN [ag EXCEPT !.pc = "probe"] ELSE Exhausted(ag)

\* chat(user_message) up to the first completion call.
chat(ag, user_message) ==
    LoopHead(AppendMessage(Started(BeginTurn(ag, "chat")), UserMsg(user_message)))

\* Faulty variant of chat_stream: the User message is appended at the call.
ChatStreamEager(ag, user_message) ==
    [AppendMessage(BeginTurn(ag, "chat_stream"), UserMsg(user_message))
        EXCEPT !.pc = "created", !.arg = user_message]

\* chat_stream(user_message): calling it only creates the generator.
chat_stream(ag, user_message) ==
    [BeginTurn(ag, "chat_stream") EXCEPT !.pc = "created", !.arg = user_message]

\* Faulty variant of FirstPull: the user's message is not appended.
FirstPullWithoutUser(ag) == LoopHead(ag)

\* The first next() on the generator runs chat_stream's body from its start.
FirstPull(ag) == LoopHead(AppendMessage(Started(ag), UserMsg(ag.arg)))

\* reset(): the caller's view of the agent is now that of the reset.
LastOpReset(ag) ==
    [ag EXCEPT !.op = "reset", !.outcome = "none", !.returned = None,
               !.yielded = <<>>, !.calls = 0, !.saw_final = FALSE,
               !.dropped = Len(ag.messages) - 1, !.before = <<>>,
               !.log_before = <<>>, !.turns = 0]

\* Faulty variant of reset: the tool log is kept.
ResetKeepsLog(ag) == [LastOpReset(ag) EXCEPT !.messages = <<SystemMsg>>]

reset(ag) ==
    [LastOpReset(ag) EXCEPT !.messages = <<SystemMsg>>, !.tool_log = <<>>]

\* Faulty variant of FinalContent: an absent content is kept as None.
FinalContentRaw(message) == message.content

\* Lines 120-124: the final answer of chat.
FinalContent(message) == OrEmpty(message.content)

FinalAnswer(ag, message) ==
    LET assistant_content == FinalContent(message) IN
    EndTurn([AppendMessage(ag, [role |-> "assistant", content |-> assistant_content])
                EXCEPT !.returned = assistant_content], "final")

\* Lines 118-127 and 157-183: a probe call returned `message`.
OnResponse(ag, message) ==
    LET ag1 == [ag EXCEPT !.calls = @ + 1] IN
    IF message.tool_calls = <<>> THEN
        IF ag.op = "chat" THEN FinalAnswer([ag1 EXCEPT !.saw_final = TRUE], message)
        ELSE [ag1 EXCEPT !.pc = "stream_call", !.saw_final = TRUE]
    ELSE [AppendMessage(ag1, _sanitize_message(model_dump(message)))
            EXCEPT !.tool_calls = message.tool_calls, !.idx = 1, !.pc = "record"]

\* Faulty variant of ServiceFailure: the fragments received so far are
\* appended as an Assistant message before the exception leaves the loop.
ServiceFailureKeepsPartial(ag) ==
    EndTurn(AppendMessage(ag, [role |-> "assistant",
                               content |-> Join(ag.full_response)]),
            "service_error")

\* Faulty variant of ServiceFailure: the messages of the failed turn are
\* taken back.
ServiceFailureRollsBack(ag) ==
    EndTurn([ag EXCEPT !.messages = ag.before], "service_error")

\* A completion call, or the iteration over the stream, raised.
ServiceFailure(ag) == EndTurn(ag, "service_error")

\* Lines 162-171: the streaming call returned the stream.
OnStreamOpen(ag) ==
    [ag EXCEPT !.calls = @ + 1, !.pc = "chunks", !.full_response = <<>>, !.nchunks = 0]

\* Lines 172-176: one chunk of the stream.
OnChunk(ag, delta) ==
    IF TruthyText(delta)
    THEN [ag EXCEPT !.full_response = Append(@, delta), !.yielded = Append(@, delta),
                    !.nchunks = @ + 1, !.susp = TRUE]
    ELSE [ag EXCEPT !.nchunks = @ + 1, !.susp = FALSE]

\* Faulty variant of OnStreamEnd: only the last fragment is kept.
OnStreamEndLastFragment(ag) ==
    LET final == IF ag.full_response = <<>> THEN ""
                 ELSE ag.full_response[Len(ag.full_response)]
    IN  EndTurn(AppendMessage(ag, [role |-> "assistant", content |-> final]), "final")

\* Lines 178-180: the stream ended.
OnStreamEnd(ag) ==
    LET final == Join(ag.full_response) IN
    EndTurn(AppendMessage(ag, [role |-> "assistant", content |-> final]), "final")

\* json.dumps(fn_args) gives back the payload text for the payloads above.
Notice(fn_name, arguments) == "\nUsando: " \o fn_name \o "(" \o arguments \o ")\n"

\* Faulty variant of OnRecord: the request is not logged here.
OnRecordUnlogged(ag) ==
    LET parsed == json_loads(ag.tool_calls[ag.idx].function.arguments) IN
    IF parsed.raised THEN EndTurn(ag, "json_error")
    ELSE [ag EXCEPT !.fn_args = parsed.value, !.pc = "exec", !.susp = FALSE]

\* Lines 129-132 and 185-189: decode the arguments, log the request and,
\* when streaming, yield the notice.
OnRecord(ag) ==
    LET tool_call == ag.tool_calls[ag.idx]
        fn_name == tool_call.function.name
        parsed == json_loads(tool_call.function.arguments)
    IN  IF parsed.raised THEN EndTurn(ag, "json_error")
        ELSE LET ag1 == [ag EXCEPT !.tool_log = Append(@, [tool |-> fn_name,
                                                            args |-> parsed.value]),
                                   !.fn_args = parsed.value, !.pc = "exec",
                                   !.susp = FALSE]
             IN  IF ag.op = "chat" THEN ag1
                 ELSE [ag1 EXCEPT !.yielded = Append(@, Notice(fn_name,
                                                   tool_call.function.arguments)),
                                  !.susp = TRUE]

\* Faulty variant of ToolResult: the result refers to the tool's name.
ToolResultByName(tool_call, result) ==
    [role |-> "tool", tool_call_id |-> tool_call.function.name, content |-> result]

\* Faulty variant of ToolResult: the result also names its tool.
ToolResultWithName(tool_call, result) ==
    [role |-> "tool", tool_call_id |-> tool_call.id, content |-> result,
     name |-> tool_call.function.name]

ToolResult(tool_call, result) ==
    [role |-> "tool", tool_call_id |-> tool_call.id, content |-> result]

\* Faulty variant of OnExecute: a tool that raises is answered with a Tool
\* Result before the exception leaves the loop.
OnExecuteAnswersFailure(ag) ==
    LET tool_call == ag.tool_calls[ag.idx]
        result == execute_tool(tool_call.function.name, ag.fn_args)
    IN  IF result.raised
        THEN EndTurn(AppendMessage(ag, ToolResult(tool_call, "error")), "tool_error")
        ELSE LET ag1 == [AppendMessage(ag, ToolResult(tool_call, result.text))
                            EXCEPT !.susp = FALSE, !.fn_args = <<>>]
             IN  IF ag.idx < Len(ag.tool_calls)
                 THEN [ag1 EXCEPT !.idx = @ + 1, !.pc = "record"]
                 ELSE LoopHead([ag1 EXCEPT !.round = @ + 1, !.tool_calls = <<>>,
                                           !.idx = 0])

\* Lines 133-139 and 191-196: run the tool, append its result, go on with
\* the next request or the next round.
OnExecute(ag) ==
    LET tool_call == ag.tool_calls[ag.idx]
        result == execute_tool(tool_call.function.name, ag.fn_args)
    IN  IF result.raised THEN EndTurn(ag, "tool_error")
        ELSE LET ag1 == [AppendMessage(ag, ToolResult(tool_call, result.text))
                            EXCEPT !.susp = FALSE, !.fn_args = <<>>]
             IN  IF ag.idx < Len(ag.tool_calls)
                 THEN [ag1 EXCEPT !.idx = @ + 1, !.pc = "record"]
                 ELSE LoopHead([ag1 EXCEPT !.round = @ + 1, !.tool_calls = <<>>,
                                           !.idx = 0])

\* ---------------------------------------------------- the agent's steps

Shell == <<sessions, cur, http>>

Aux == <<script, probe>>

ChatCall(a) ==
    /\ agent[a].pc = "idle"
    /\ Len(agent[a].messages) < MaxHistory
    /\ \E u \in UTTERANCES : agent' = [agent EXCEPT ![a] = chat(@, u)]
    /\ UNCHANGED <<Shell, Aux>>

StreamCall(a) ==
    /\ agent[a].pc = "idle"
    /\ Len(agent[a].messages) < MaxHistory
    /\ \E u \in UTTERANCES : agent' = [agent EXCEPT ![a] = chat_stream(@, u)]
    /\ UNCHANGED <<Shell, Aux>>

StreamFirstPull(a) ==
    /\ agent[a].pc = "created"
    /\ agent' = [agent EXCEPT ![a] = FirstPull(@)]
    /\ UNCHANGED <<Shell, Aux>>

\* The caller drops the generator while it is suspended: it is closed there.
StreamAbandon(a) ==
    /\ agent[a].op = "chat_stream"
    /\ agent[a].pc = "created" \/ agent[a].susp
    /\ agent' = [agent EXCEPT ![a] = EndTurn(@, "abandoned")]
    /\ UNCHANGED <<Shell, Aux>>

ResetCall(a) ==
    /\ agent[a].pc = "idle"
    /\ agent' = [agent EXCEPT ![a] = reset(@)]
    /\ UNCHANGED <<Shell, Aux>>

ProbeReturnsWithin(a, cap) ==
    /\ agent[a].pc = "probe"
    /\ \E message \in ProbeResponses(Len(agent[a].messages), cap) :
          agent' = [agent EXCEPT ![a] = OnResponse(@, message)]
    /\ UNCHANGED <<Shell, Aux>>

ProbeReturns(a) == ProbeReturnsWithin(a, MaxHistory)

\* The service answers the probe call with the given message.
ProbeAnswers(a, message) ==
    /\ agent[a].pc = "probe"
    /\ agent' = [agent EXCEPT ![a] = OnResponse(@, message)]
    /\ UNCHANGED <<Shell, Aux>>

ProbeFails(a) ==
    /\ agent[a].pc = "probe"
    /\ agent' = [agent EXCEPT ![a] = ServiceFailure([@ EXCEPT !.calls = @ + 1])]
    /\ UNCHANGED <<Shell, Aux>>

StreamOpens(a) ==
    /\ agent[a].pc = "stream_call"
    /\ agent' = [agent EXCEPT ![a] = OnStreamOpen(@)]
    /\ UNCHANGED <<Shell, Aux>>

StreamOpenFails(a) ==
    /\ agent[a].pc = "stream_call"
    /\ agent' = [agent EXCEPT ![a] = ServiceFailure([@ EXCEPT !.calls = @ + 1])]
    /\ UNCHANGED <<Shell, Aux>>

StreamChunk(a) ==
    /\ agent[a].pc = "chunks"
    /\ agent[a].nchunks < MaxChunks
    /\ \E delta \in DELTAS : agent' = [agent EXCEPT ![a] = OnChunk(@, delta)]
    /\ UNCHANGED <<Shell, Aux>>

StreamEnds(a) ==
    /\ agent[a].pc = "chunks"
    /\ agent' = [agent EXCEPT ![a] = OnStreamEnd(@)]
    /\ UNCHANGED <<Shell, Aux>>

StreamFails(a) ==
    /\ agent[a].pc = "chunks"
    /\ agent' = [agent EXCEPT ![a] = ServiceFailure(@)]
    /\ UNCHANGED <<Shell, Aux>>

RecordRequest(a) ==
    /\ agent[a].pc = "record"
    /\ agent' = [agent EXCEPT ![a] = OnRecord(@)]
    /\ UNCHANGED <<Shell, Aux>>

ExecuteRequest(a) ==
    /\ agent[a].pc = "exec"
    /\ agent' = [agent EXCEPT ![a] = OnExecute(@)]
    /\ UNCHANGED <<Shell, Aux>>

\* ------------------------------------------- one agent used as a library

CLI == "cli"

Init ==
    /\ agent = (CLI :> NewAgent)
    /\ sessions = <<>>
    /\ cur = None
    /\ http = [status |-> 0]
    /\ script = <<>>
    /\ probe = <<>>

Next ==
    \/ ChatCall(CLI)
    \/ StreamCall(CLI)
    \/ StreamFirstPull(CLI)
    \/ StreamAbandon(CLI)
    \/ ResetCall(CLI)
    \/ ProbeReturns(CLI)
    \/ ProbeFails(CLI)
    \/ StreamOpens(CLI)
    \/ StreamOpenFails(CLI)
    \/ StreamChunk(CLI)
    \/ StreamEnds(CLI)
    \/ StreamFails(CLI)
    \/ RecordRequest(CLI)
    \/ ExecuteRequest(CLI)

Spec == Init /\ [][Next]_vars

\* ------------------------------------ the sanitizer as a pure function

\* A dict with the key k, for each value, or without it.
Opt(k, values) == {<<>>} \cup {k :> v : v \in values}

CALL_PLAIN ==
    [id |-> "call_1", type |-> "function",
     function |-> [name |-> "cotizar", arguments |-> ARGS_QUOTE]]

\* A tool request without a type, with a field the whitelist drops.
CALL_EXTRA ==
    [id |-> "call_2", index |-> 0,
     function |-> [name |-> "listar_catalogo", arguments |-> ARGS_EMPTY]]

CALL_NONDICT == [nondict |-> "call_3"]

\* A dict entry without the id that line 46 reads.
CALL_NO_ID == [function |-> [name |-> "cotizar", arguments |-> ARGS_EMPTY]]

\* tc["id"] or tc["function"] of lines 46-47 raises KeyError.
SanitizeKeyError(msg) ==
    /\ Get(msg, "role", "") = "assistant"
    /\ \E i \in 1..Len(Get(msg, "tool_calls", <<>>)) :
          LET tc == msg["tool_calls"][i] IN
          IsDict(tc) /\ ~({"id", "function"} \subseteq DOMAIN tc)

\* Messages of every variant: each role, an unknown role and no role; the
\* content and the tool_call_id present or not; tool_calls absent, empty,
\* with dicts, with entries that are no dicts; a field no branch keeps.
SANITIZE_INPUTS ==
    { r @@ c @@ i @@ t @@ x :
        r \in Opt("role", {"system", "user", "assistant", "tool", "function"}),
        c \in Opt("content", {None, "", "Hola"}),
        i \in Opt("tool_call_id", {"call_1"}),
        t \in Opt("tool_calls", {<<>>, <<CALL_PLAIN>>, <<CALL_EXTRA>>, <<CALL_NONDICT>>,
                                 <<CALL_NONDICT, CALL_PLAIN>>, <<CALL_PLAIN, CALL_EXTRA>>,
                                 <<CALL_PLAIN, CALL_NO_ID>>}),
        x \in Opt("refusal", {None}) }

Idle == <<>>

AgentUnused == (CLI :> NewAgent)

InitSanitize ==
    /\ probe \in {[stage |-> "given", msg |-> m] : m \in SANITIZE_INPUTS}
    /\ agent = AgentUnused
    /\ sessions = <<>>
    /\ cur = None
    /\ http = [status |-> 0]
    /\ script = Idle

SanitizeRaises ==
    /\ probe.stage = "given"
    /\ SanitizeKeyError(probe.msg)
    /\ probe' = [stage |-> "raised", msg |-> probe.msg, exc |-> "KeyError"]
    /\ UNCHANGED <<agent, Shell, script>>

SanitizeOnce ==
    /\ probe.stage = "given"
    /\ ~SanitizeKeyError(probe.msg)
    /\ probe' = [stage |-> "once", msg |-> probe.msg,
                 once |-> _sanitize_message(probe.msg)]
    /\ UNCHANGED <<agent, Shell, script>>

SanitizeTwice ==
    /\ probe.stage = "once"
    /\ probe' = [stage |-> "twice", msg |-> probe.msg, once |-> probe.once,
                 twice |-> _sanitize_message(probe.once)]
    /\ UNCHANGED <<agent, Shell, script>>

NextSanitize == SanitizeOnce \/ SanitizeRaises \/ SanitizeTwice

SpecSanitize == InitSanitize /\ [][NextSanitize]_vars

\* --------------------------------------- the quote as a pure function

\* Ids in both cases, and one that is no product.
QUOTE_IDS == {"gf-alpha", "GF-CELL", "gj-001", "GJ-001", "zz-9"}

\* Quantities beyond the small ones: 10^12 and 10^12 + 1.
BIG_QUANTITIES == {<<0, 1186, 850, 116>>, <<1, 1186, 850, 116>>}

QUANTITIES == {FromInt(q) : q \in 1..MaxQuantity} \cup BIG_QUANTITIES

InitQuote ==
    /\ probe \in {[stage |-> "given", product_id |-> id, quantity |-> q] :
                    id \in QUOTE_IDS, q \in QUANTITIES}
    /\ agent = AgentUnused
    /\ sessions = <<>>
    /\ cur = None
    /\ http = [status |-> 0]
    /\ script = Idle

\* calculate_quote, and the cotizar tool on the same arguments.
Quote ==
    /\ probe.stage = "given"
    /\ probe' = [stage |-> "quoted", product_id |-> probe.product_id,
                 quantity |-> probe.quantity,
                 quote |-> calculate_quote(probe.product_id, probe.quantity),
                 tool |-> execute_tool("cotizar", [product_id |-> probe.product_id,
                                                   quantity |-> probe.quantity])]
    /\ UNCHANGED <<agent, Shell, script>>

NextQuote == Quote

SpecQuote == InitQuote /\ [][NextQuote]_vars

\* -------------------------------------- the search as a pure function

\* No query, words of the texts in either case, words of two adjacent tags,
\* and a word of no text.
SEARCH_QUERIES ==
    {"", "salto", "Salto", "CMJ", "imtp", "fuerza", "salto CMJ", "xyz"}

SEARCH_CATEGORIES ==
    {"", "Placas de Fuerza", "PLACAS DE FUERZA", "celdas de carga", "Software"}

SEARCH_PRICES == {NoPrice, 0, 95000, 300000, 900000}

InitSearch ==
    /\ probe \in {[stage |-> "given", query |-> q, category |-> c, max_price |-> m] :
                    q \in SEARCH_QUERIES, c \in SEARCH_CATEGORIES,
                    m \in SEARCH_PRICES}
    /\ agent = AgentUnused
    /\ sessions = <<>>
    /\ cur = None
    /\ http = [status |-> 0]
    /\ script = Idle

Search ==
    /\ probe.stage = "given"
    /\ probe' = [stage |-> "searched", query |-> probe.query,
                 category |-> probe.category, max_price |-> probe.max_price,
                 results |-> search_products(probe.query, probe.category,
                                             probe.max_price)]
    /\ UNCHANGED <<agent, Shell, script>>

NextSearch == Search

SpecSearch == InitSearch /\ [][NextSearch]_vars

\* ------------------- chat and chat_stream against one scripted response

CHAT == "chat"

STREAM == "chat_stream"

\* The text a streamed response carries: its deltas in order, a delta
\* without content carrying none.
TextOf(v) == IF v = None THEN "" ELSE v

StreamedText(chunks) == Join([i \in 1..Len(chunks) |-> TextOf(chunks[i])])

ChunkSeqs == UNION {[1..n -> DELTAS] : n \in 0..MaxChunks}

\* One final-answer response, as the probe call and as the streaming call
\* deliver it: the chunks carry the text of the content.
SCRIPTS ==
    {[content |-> c, chunks |-> ch, u |-> u] :
        c \in FINAL_CONTENTS \cup {"Ho", "la", "HoHo", "lala", "laHo"},
        ch \in ChunkSeqs, u \in UTTERANCES}

Identical(sc) == StreamedText(sc.chunks) = TextOf(sc.content)

\* Histories the two runs start from: a new agent's, and one after a turn.
START_HISTORIES ==
    { <<SystemMsg>>,
      <<SystemMsg, UserMsg("Hola"), [role |-> "assistant", content |-> "Hola"]>> }

InitEquiv ==
    /\ script \in {sc \in SCRIPTS : Identical(sc)}
    /\ \E h \in START_HISTORIES :
          agent = [a \in {CHAT, STREAM} |->
                     [NewAgent EXCEPT !.messages = h, !.turns = (Len(h) - 1) \div 2]]
    /\ sessions = <<>>
    /\ cur = None
    /\ http = [status |-> 0]
    /\ probe = Idle

EquivChat ==
    /\ agent[CHAT].op = "none"
    /\ agent' = [agent EXCEPT ![CHAT] = chat(@, script.u)]
    /\ UNCHANGED <<Shell, Aux>>

EquivStream ==
    /\ agent[STREAM].op = "none"
    /\ agent' = [agent EXCEPT ![STREAM] = chat_stream(@, script.u)]
    /\ UNCHANGED <<Shell, Aux>>

EquivProbe(a) == ProbeAnswers(a, FinalMessage(script.content))

EquivChunk ==
    /\ agent[STREAM].pc = "chunks"
    /\ agent[STREAM].nchunks < Len(script.chunks)
    /\ agent' = [agent EXCEPT ![STREAM] =
                    OnChunk(@, script.chunks[agent[STREAM].nchunks + 1])]
    /\ UNCHANGED <<Shell, Aux>>

EquivStreamEnds ==
    /\ agent[STREAM].nchunks = Len(script.chunks)
    /\ StreamEnds(STREAM)

NextEquiv ==
    \/ EquivChat
    \/ EquivStream
    \/ StreamFirstPull(STREAM)
    \/ EquivProbe(CHAT)
    \/ EquivProbe(STREAM)
    \/ StreamOpens(STREAM)
    \/ EquivChunk
    \/ EquivStreamEnds

SpecEquiv == InitEquiv /\ [][NextEquiv]_vars

\* ------------- chat and chat_stream against one scripted turn with tools

RECURSIVE Sum(_)
Sum(sizes) == IF sizes = <<>> THEN 0 ELSE Head(sizes) + Sum(Tail(sizes))

\* The sizes of the batches of a turn that requests n tools in all: at most
\* MAX_TOOL_ROUNDS batches of at most MaxBatch requests.
BatchSizes(n) ==
    {sizes \in UNION {[1..m -> 1..MaxBatch] : m \in 1..MAX_TOOL_ROUNDS} :
        Sum(sizes) = n}

\* A turn's responses as the service is scripted to give them: the requests
\* in order, how they are cut into responses, and the final answer that
\* follows if the loop asks again.
TOOL_SCRIPTS ==
    UNION {{[requests |-> requests, sizes |-> sizes, u |-> u,
             content |-> "Hola", chunks |-> <<"Ho", "la">>] :
                requests \in [1..n -> TOOL_REQUESTS], sizes \in BatchSizes(n),
                u \in UTTERANCES} :
           n \in 1..MaxScript}

\* The r-th response of the script.
ScriptedResponse(sc, r) ==
    IF r > Len(sc.sizes) THEN FinalMessage(sc.content)
    ELSE LET done == Sum(SubSeq(sc.sizes, 1, r - 1)) IN
         ToolMessage(SubSeq(sc.requests, done + 1, done + sc.sizes[r]), done)

InitEquivTools ==
    /\ script \in TOOL_SCRIPTS
    /\ agent = [a \in {CHAT, STREAM} |-> NewAgent]
    /\ sessions = <<>>
    /\ cur = None
    /\ http = [status |-> 0]
    /\ probe = Idle

\* The streamed turn is run once the other has ended: the agents are two
\* objects, and neither run reads what the other writes.
EquivToolsStream ==
    /\ agent[CHAT].op = "chat"
    /\ agent[CHAT].pc = "idle"
    /\ EquivStream

\* The probe call of agent a gets the next response of the script.
ScriptedProbe(a) ==
    /\ agent[a].pc = "probe"
    /\ ProbeAnswers(a, ScriptedResponse(script, agent[a].calls + 1))

NextEquivTools ==
    \/ EquivChat
    \/ EquivToolsStream
    \/ StreamFirstPull(STREAM)
    \/ ScriptedProbe(CHAT)
    \/ ScriptedProbe(STREAM)
    \/ RecordRequest(CHAT)
    \/ RecordRequest(STREAM)
    \/ ExecuteRequest(CHAT)
    \/ ExecuteRequest(STREAM)
    \/ StreamOpens(STREAM)
    \/ EquivChunk
    \/ EquivStreamEnds

SpecEquivTools == InitEquivTools /\ [][NextEquivTools]_vars

\* ------------------------------------------------------ the HTTP service

\* sessions is the dict's keys in insertion order; agent maps each key to
\* its CommercialAgent.  A handler runs without awaiting, so requests are
\* served one at a time: cur is the session of the /chat request in hand,
\* and while it is in hand probe remembers the keys it deleted.

Range(seq) == {seq[i] : i \in 1..Len(seq)}

\* Values of uuid.uuid4(): one more than the map can hold.
UUIDS == {"u" \o ToString(i) : i \in 1..(MAX_SESSIONS + 1)}

REQUEST_SESSION_IDS == {None, ""} \cup UUIDS

REQUEST_MESSAGES == {"   "} \cup UTTERANCES

\* not request.message.strip()
Blank(message) == message \in {"", " ", "   "}

\* session_id and session_id in sessions
Known(session_id) ==
    session_id # None /\ session_id # "" /\ session_id \in Range(sessions)

\* Faulty variant of WithoutOldest: the entry inserted last is deleted.
WithoutNewest(keys) == SubSeq(keys, 1, Len(keys) - 1)

\* oldest = next(iter(sessions)); del sessions[oldest]
WithoutOldest(keys) == Tail(keys)

get_or_create_session(session_id) ==
    IF Known(session_id)
    THEN [session_id |-> session_id, sessions |-> sessions, agent |-> agent]
    ELSE LET kept == IF Len(sessions) >= MAX_SESSIONS THEN WithoutOldest(sessions)
                     ELSE sessions
             new_id == IF session_id # None /\ session_id # "" THEN session_id
                       ELSE CHOOSE u \in UUIDS : u \notin Range(sessions)
         IN  [session_id |-> new_id,
              sessions |-> Append(kept, new_id),
              agent |-> [a \in Range(kept) \cup {new_id} |->
                            IF a = new_id THEN NewAgent ELSE agent[a]]]

\* [entry["tool"] for entry in agent.tool_log[-5:]]
tools_used(tool_log) ==
    LET n == Len(tool_log)
        from == IF n > 5 THEN n - 4 ELSE 1
    IN  [i \in 1..(n - from + 1) |-> tool_log[from + i - 1].tool]

\* Faulty variant of ChatResponse: an exception of agent.chat is answered
\* like a reply.
ChatResponseSwallows(session_id, ag) ==
    [status |-> 200, reply |-> ag.returned, session_id |-> session_id,
     tools_used |-> tools_used(ag.tool_log)]

\* Lines 108-119 of the /chat handler, once agent.chat has ended.
ChatResponse(session_id, ag) ==
    IF ag.outcome \in {"final", "exhausted"}
    THEN [status |-> 200, reply |-> ag.returned, session_id |-> session_id,
          tools_used |-> tools_used(ag.tool_log)]
    ELSE [status |-> 500, detail |-> "Error del agente: " \o ag.outcome]

\* The messages held by the agents of the given sessions.
RECURSIVE Stored(_, _)
Stored(keys, agents) ==
    IF keys = <<>> THEN 0
    ELSE Len(agents[Head(keys)].messages) + Stored(Tail(keys), agents)

\* The length the history of the request in hand may still grow to.
ApiRoom ==
    LET room == Len(agent[cur].messages) + MaxApiMessages - Stored(sessions, agent)
    IN  IF room < MaxApiHistory THEN room ELSE MaxApiHistory

ApiChatBlank(message) ==
    /\ cur = None
    /\ Blank(message)
    /\ http' = [status |-> 400, detail |-> "El mensaje no puede estar vacio."]
    /\ UNCHANGED <<agent, sessions, cur, Aux>>

ApiChat(session_id, message) ==
    /\ cur = None
    /\ ~Blank(message)
    /\ LET got == get_or_create_session(session_id) IN
       /\ Len(got.agent[got.session_id].messages) < MaxApiHistory
       /\ Stored(got.sessions, got.agent) < MaxApiMessages
       /\ sessions' = got.sessions
       /\ agent' = [got.agent EXCEPT ![got.session_id] = chat(@, message)]
       /\ cur' = got.session_id
       /\ probe' = IF Range(sessions) \subseteq Range(got.sessions) THEN Idle
                   ELSE [evicted |-> Range(sessions) \ Range(got.sessions)]
    /\ http' = [status |-> 0]
    /\ UNCHANGED script

\* The handler returns: what agent.chat returned or raised lives on in the
\* response only.
Returned(ag) ==
    [ag EXCEPT !.op = "none", !.outcome = "none", !.returned = None,
               !.calls = 0, !.saw_final = FALSE, !.before = <<>>,
               !.log_before = <<>>]

ApiChatReturns ==
    /\ cur # None
    /\ agent[cur].pc = "idle"
    /\ http' = ChatResponse(cur, agent[cur])
    /\ agent' = [agent EXCEPT ![cur] = Returned(@)]
    /\ cur' = None
    /\ probe' = Idle
    /\ UNCHANGED <<sessions, script>>

ApiReset(session_id) ==
    /\ cur = None
    /\ IF Known(session_id)
       THEN /\ agent' = [agent EXCEPT ![session_id] = reset(@)]
            /\ http' = [status |-> 200, body |-> "reset", session_id |-> session_id]
       ELSE /\ agent' = agent
            /\ http' = [status |-> 200, body |-> "no_session"]
    /\ UNCHANGED <<sessions, cur, Aux>>

ApiHealth ==
    /\ cur = None
    /\ http' = [status |-> 200, body |-> "ok", active_sessions |-> Len(sessions)]
    /\ UNCHANGED <<agent, sessions, cur, Aux>>

\* agent.chat of the request in hand takes its next step.
ApiAgentStep ==
    /\ cur # None
    /\ \/ ProbeReturnsWithin(cur, ApiRoom)
       \/ ProbeFails(cur)
       \/ RecordRequest(cur)
       \/ ExecuteRequest(cur)

InitApi ==
    /\ agent = <<>>
    /\ sessions = <<>>
    /\ cur = None
    /\ http = [status |-> 0]
    /\ script = Idle
    /\ probe = Idle

NextApi ==
    \/ \E message \in REQUEST_MESSAGES : ApiChatBlank(message)
    \/ \E session_id \in REQUEST_SESSION_IDS, message \in REQUEST_MESSAGES :
          ApiChat(session_id, message)
    \/ ApiAgentStep
    \/ ApiChatReturns
    \/ \E session_id \in REQUEST_SESSION_IDS : ApiReset(session_id)
    \/ ApiHealth

SpecApi == InitApi /\ [][NextApi]_vars

\* ------------------------------------------- objects and their lists

\* Who owns which list.  Here agent maps each CommercialAgent object to its
\* two fields, which are references to list objects; probe is the heap of
\* list objects (reference -> contents); script binds each key of the
\* session dict to the object it refers to; sessions is the dict's keys in
\* insertion order.  A message is written as its role.

\* A reference no object in `used` has.
Fresh(used) == CHOOSE n \in 1..(Cardinality(used) + 1) : n \notin used

\* The list objects some agent object refers to.
Referenced(objects) ==
    {objects[o].messages : o \in DOMAIN objects}
        \cup {objects[o].tool_log : o \in DOMAIN objects}

\* Faulty variant of NewToolLog: a list object that is already in use.
SharedToolLog(used) == CHOOSE l \in used : TRUE

\* Line 76: self.tool_log = [] makes a new list object.
NewToolLog(used) == Fresh(used)

\* CommercialAgent(): a new object o with two new lists.
Construct(o, objects, heap) ==
    LET messages == Fresh(DOMAIN heap)
        tool_log == NewToolLog(DOMAIN heap \cup {messages})
    IN  [objects |-> [x \in DOMAIN objects \cup {o} |->
                        IF x = o THEN [messages |-> messages, tool_log |-> tool_log]
                        ELSE objects[x]],
         heap |-> [l \in DOMAIN heap \cup {messages, tool_log} |->
                        IF l = messages THEN <<"system">>
                        ELSE IF l = tool_log THEN <<>>
                        ELSE heap[l]]]

\* Objects and lists nothing refers to any more are gone.  A reference has
\* no meaning but identity, so the ones left are written in a fixed way: an
\* object as the first place among the keys that refers to it, a list as the
\* first place among the fields of the objects, in that order, that refers
\* to it.
Collect(keys, binding, objects, heap) ==
    LET order == [k \in 1..Len(keys) |-> binding[keys[k]]]
        object_name == [o \in Range(order) |->
                            CHOOSE k \in 1..Len(order) :
                                /\ order[k] = o
                                /\ \A j \in 1..(k - 1) : order[j] # o]
        fields == [i \in 1..(2 * Len(order)) |->
                        IF i % 2 = 1 THEN objects[order[(i + 1) \div 2]].messages
                        ELSE objects[order[i \div 2]].tool_log]
        list_name == [l \in Range(fields) |->
                            CHOOSE i \in 1..Len(fields) :
                                /\ fields[i] = l
                                /\ \A j \in 1..(i - 1) : fields[j] # l]
    IN  [binding |-> [k \in Range(keys) |-> object_name[binding[k]]],
         objects |-> [n \in {object_name[o] : o \in Range(order)} |->
                        [messages |-> list_name[objects[order[n]].messages],
                         tool_log |-> list_name[objects[order[n]].tool_log]]],
         heap |-> [i \in {list_name[l] : l \in Range(fields)} |-> heap[fields[i]]]]

InitShare ==
    /\ agent = <<>>
    /\ probe = <<>>
    /\ script = <<>>
    /\ sessions = <<>>
    /\ cur = None
    /\ http = [status |-> 0]

\* get_or_create_session(session_id), lines 27-40.
ShareGetOrCreate(session_id) ==
    /\ ~Known(session_id)
    /\ LET kept == IF Len(sessions) >= MAX_SESSIONS THEN WithoutOldest(sessions)
                   ELSE sessions
           new_id == IF session_id # None /\ session_id # "" THEN session_id
                     ELSE CHOOSE u \in UUIDS : u \notin Range(sessions)
           o == Fresh(DOMAIN agent)
           made == Construct(o, agent, probe)
           binding == [k \in Range(kept) \cup {new_id} |->
                         IF k = new_id THEN o ELSE script[k]]
           left == Collect(Append(kept, new_id), binding, made.objects, made.heap)
       IN  /\ sessions' = Append(kept, new_id)
           /\ script' = left.binding
           /\ agent' = left.objects
           /\ probe' = left.heap
    /\ UNCHANGED <<cur, http>>

\* self.messages.append(...) of a turn of object o: the user's message
\* (lines 82, 87), then the assistant's (lines 123, 127, 179, 183).
ShareAppend(o) ==
    /\ Len(probe[agent[o].messages]) < MaxShareLen
    /\ probe' = [probe EXCEPT ![agent[o].messages] =
                    Append(@, IF @[Len(@)] = "user" THEN "assistant" ELSE "user")]
    /\ UNCHANGED <<agent, script, Shell>>

\* self.tool_log.append(...) of a turn of object o: lines 132, 188.
ShareLog(o) ==
    /\ Len(probe[agent[o].tool_log]) < MaxShareLen
    /\ probe' = [probe EXCEPT ![agent[o].tool_log] = Append(@, "cotizar")]
    /\ UNCHANGED <<agent, script, Shell>>

\* reset() of object o: self.messages is bound to a new list, self.tool_log
\* is cleared in place.
ShareReset(o) ==
    /\ LET messages == Fresh(DOMAIN probe)
           objects == [agent EXCEPT ![o].messages = messages]
           heap == [l \in DOMAIN probe \cup {messages} |->
                      IF l = messages THEN <<"system">>
                      ELSE IF l = agent[o].tool_log THEN <<>>
                      ELSE probe[l]]
           left == Collect(sessions, script, objects, heap)
       IN  /\ agent' = left.objects
           /\ probe' = left.heap
    /\ UNCHANGED <<script, Shell>>

\* A step of a turn or a reset on object o.
ShareStep(o) ==
    \/ ShareAppend(o)
    \/ ShareLog(o)
    \/ ShareReset(o)

NextShare ==
    \/ \E session_id \in {None, CHOOSE u \in UUIDS : TRUE} : ShareGetOrCreate(session_id)
    \/ \E o \in DOMAIN agent : ShareAppend(o)
    \/ \E o \in DOMAIN agent : ShareLog(o)
    \/ \E o \in DOMAIN agent : ShareReset(o)

SpecShare == InitShare /\ [][NextShare]_vars

\* ------------------------------------------------- shapes of a history

Role(m) == Get(m, "role", "")

HasCalls(m) == Role(m) = "assistant" /\ "tool_calls" \in DOMAIN m

\* The ids of the tool requests of message m.
CallIds(m) == {m.tool_calls[c].id : c \in 1..Len(m.tool_calls)}

\* The request `id` of the Assistant message h[i] is answered: a Tool Result
\* with that id follows it, with only Tool Results in between.
Answered(h, i, id) ==
    \E j \in (i + 1)..Len(h) :
        /\ Role(h[j]) = "tool"
        /\ h[j].tool_call_id = id
        /\ \A k \in (i + 1)..j : Role(h[k]) = "tool"

NoPending(h) ==
    \A i \in 1..Len(h) :
        HasCalls(h[i]) => \A id \in CallIds(h[i]) : Answered(h, i, id)

\* The Tool Result h[j] answers a request of the nearest Assistant message
\* before it, with only Tool Results in between.
NotOrphan(h, j) ==
    \E i \in 1..(j - 1) :
        /\ HasCalls(h[i])
        /\ \A k \in (i + 1)..(j - 1) : Role(h[k]) = "tool"
        /\ h[j].tool_call_id \in CallIds(h[i])

ToolResultsOf(h) == {j \in 1..Len(h) : Role(h[j]) = "tool"}

Agents == DOMAIN agent

\* --------------------------------------------------------------- claims

\* C1: whenever a User message has been appended (a new turn began), the
\* history before it holds no Assistant message with an unanswered tool
\* request.  The code breaks this: a turn that ends with an exception in
\* the middle of a batch leaves its Assistant message pending.
C1_NoPendingWhenTurnBegins ==
    \A a \in Agents :
        \A i \in 1..Len(agent[a].messages) :
            Role(agent[a].messages[i]) = "user"
                => NoPending(SubSeq(agent[a].messages, 1, i - 1))

\* C2: every Tool Result of every reachable history follows an Assistant
\* message with only Tool Results in between, and carries the id of one of
\* that message's tool requests.
C2_NoOrphanToolResults ==
    \A a \in Agents :
        \A j \in ToolResultsOf(agent[a].messages) : NotOrphan(agent[a].messages, j)

\* C2 witness: a streamed turn whose history holds Tool Results of two
\* different Assistant messages.
C2_Witness ==
    \E a \in Agents :
        /\ agent[a].op = "chat_stream"
        /\ \E i, j \in ToolResultsOf(agent[a].messages) :
              /\ i + 1 < j
              /\ HasCalls(agent[a].messages[j - 1])
              /\ HasCalls(agent[a].messages[i - 1])

Ended(ag) == ag.pc = "idle" /\ ag.op \in {"chat", "chat_stream"}

DeliveredFallback(ag) ==
    IF ag.op = "chat" THEN ag.returned = FALLBACK_CHAT
    ELSE ag.yielded # <<>> /\ ag.yielded[Len(ag.yielded)] = FALLBACK_STREAM

\* C3 as stated: a turn in which the service answered every call, always
\* with tool requests, and which the caller consumed to its end, made
\* exactly MAX_TOOL_ROUNDS calls and ended Exhausted with the fallback.
C3_AlwaysExhaustsAfterMaxCalls ==
    \A a \in Agents :
        (/\ Ended(agent[a])
         /\ ~agent[a].saw_final
         /\ agent[a].outcome \notin {"service_error", "abandoned"})
            => /\ agent[a].outcome = "exhausted"
               /\ agent[a].calls = MAX_TOOL_ROUNDS
               /\ DeliveredFallback(agent[a])

\* C3 amended: while every response carries tool requests a turn makes at
\* most MAX_TOOL_ROUNDS calls; it ends Exhausted exactly after
\* MAX_TOOL_ROUNDS calls, delivering the fallback; the only other ends of
\* such a turn are an exception raised while decoding a request's arguments
\* or executing a tool, which ends it earlier.
C3_RoundBound ==
    \A a \in Agents :
        /\ ~agent[a].saw_final => agent[a].calls <= MAX_TOOL_ROUNDS
        /\ agent[a].outcome = "exhausted"
              => /\ agent[a].calls = MAX_TOOL_ROUNDS
                 /\ ~agent[a].saw_final
                 /\ DeliveredFallback(agent[a])
        /\ (/\ Ended(agent[a])
            /\ ~agent[a].saw_final
            /\ agent[a].outcome \notin {"service_error", "abandoned"})
              => agent[a].outcome \in {"exhausted", "json_error", "tool_error"}
        /\ agent[a].outcome \in {"json_error", "tool_error"}
              => agent[a].calls \in 1..MAX_TOOL_ROUNDS

\* C3 witness: a streamed turn that ended Exhausted after MAX_TOOL_ROUNDS
\* calls.
C3_Witness ==
    \E a \in Agents :
        /\ agent[a].op = "chat_stream"
        /\ agent[a].outcome = "exhausted"
        /\ agent[a].calls = MAX_TOOL_ROUNDS

\* C4: the history always starts with the System message carrying the
\* configured prompt and holds no other System message; right after reset()
\* it is that single message and the tool log is empty.
C4_SystemFirstAndUnique ==
    \A a \in Agents :
        /\ Len(agent[a].messages) >= 1
        /\ agent[a].messages[1] = [role |-> "system", content |-> SYSTEM_PROMPT]
        /\ \A i \in 2..Len(agent[a].messages) : Role(agent[a].messages[i]) # "system"
        /\ agent[a].op = "reset"
              => /\ agent[a].messages = <<[role |-> "system", content |-> SYSTEM_PROMPT]>>
                 /\ agent[a].tool_log = <<>>

\* C4 witness: a reset that removed at least four messages.
C4_Witness ==
    \E a \in Agents :
        /\ agent[a].op = "reset"
        /\ agent[a].dropped >= 4
        /\ Len(agent[a].messages) = 1

\* A call to the service fails for agent a: the probe call, the streaming
\* call, or the receipt of a chunk.
ServiceFails(a) == ProbeFails(a) \/ StreamOpenFails(a) \/ StreamFails(a)

\* C6: a failing service call ends the turn with that failure as its
\* outcome and leaves the history as it was.
C6_ServiceFailureLeavesHistory ==
    [][\A a \in Agents :
          ServiceFails(a)
              => /\ agent'[a].messages = agent[a].messages
                 /\ agent'[a].outcome = "service_error"
                 /\ agent'[a].pc = "idle"]_vars

\* C6 witness: a streamed turn that failed after fragments had been
\* yielded; no Assistant message was appended for it.
C6_Witness ==
    \E a \in Agents :
        /\ agent[a].outcome = "service_error"
        /\ agent[a].op = "chat_stream"
        /\ agent[a].yielded # <<>>
        /\ Role(agent[a].messages[Len(agent[a].messages)]) = "user"

\* C7: executing a tool never raises: no turn ends with an exception of
\* execute_tool.  The code breaks this for a payload without a required
\* field.
C7_ToolsNeverRaise ==
    \A a \in Agents : agent[a].outcome # "tool_error"

\* The request an agent is about to execute.
CurrentCall(ag) == ag.tool_calls[ag.idx]

\* C8 as stated: once the unknown-name request that closes a batch has been
\* executed, the service is queried again.
C8_AlwaysQueriesAgain ==
    [][\A a \in Agents :
          (/\ ExecuteRequest(a)
           /\ CurrentCall(agent[a]).function.name \notin TOOL_NAMES
           /\ agent[a].idx = Len(agent[a].tool_calls))
              => agent'[a].pc = "probe"]_vars

\* C8 amended: executing a request whose name is not a registered tool
\* appends the error payload as the Tool Result of that request and goes on:
\* to the next request of the batch, or after the last one to the next query
\* of the service, or to Exhausted when that was the last round.
C8_UnknownToolContinues ==
    [][\A a \in Agents :
          (ExecuteRequest(a) /\ CurrentCall(agent[a]).function.name \notin TOOL_NAMES)
              => /\ agent'[a].messages =
                        Append(agent[a].messages,
                               [role |-> "tool",
                                tool_call_id |-> CurrentCall(agent[a]).id,
                                content |-> "{\"error\": \"Herramienta '"
                                    \o CurrentCall(agent[a]).function.name
                                    \o "' no reconocida.\"}"])
                 /\ agent[a].idx < Len(agent[a].tool_calls)
                       => /\ agent'[a].pc = "record"
                          /\ agent'[a].idx = agent[a].idx + 1
                          /\ agent'[a].tool_calls = agent[a].tool_calls
                 /\ agent[a].idx = Len(agent[a].tool_calls)
                       => IF agent[a].round + 1 < MAX_TOOL_ROUNDS
                          THEN agent'[a].pc = "probe"
                          ELSE agent'[a].outcome = "exhausted"]_vars

\* C8 witness: the error payload of an unknown tool is followed by the
\* Tool Result of the next request of the batch, and the service is about
\* to be queried again.
C8_Witness ==
    \E a \in Agents :
        /\ agent[a].pc = "probe"
        /\ \E j \in ToolResultsOf(agent[a].messages) :
              /\ agent[a].messages[j].content =
                    "{\"error\": \"Herramienta 'enviar_correo' no reconocida.\"}"
              /\ j + 1 = Len(agent[a].messages)
              /\ Role(agent[a].messages[j + 1]) = "tool"

\* C5: from the same history and for the same final-answer response, chat
\* and a fully consumed chat_stream append an Assistant message with the
\* same content (and leave the same history).
C5_SameFinalMessage ==
    (Ended(agent[CHAT]) /\ Ended(agent[STREAM]))
        => /\ agent[CHAT].outcome = "final"
           /\ agent[STREAM].outcome = "final"
           /\ agent[CHAT].messages[Len(agent[CHAT].messages)]
                 = agent[STREAM].messages[Len(agent[STREAM].messages)]
           /\ Role(agent[CHAT].messages[Len(agent[CHAT].messages)]) = "assistant"
           /\ agent[CHAT].messages = agent[STREAM].messages

\* C5 witness: both runs ended, the response having no content on the probe
\* call and two chunks on the streaming call.
C5_Witness ==
    /\ Ended(agent[CHAT])
    /\ Ended(agent[STREAM])
    /\ script.content = None
    /\ Len(script.chunks) = 2
    /\ Len(agent[STREAM].messages) = 5

\* C10: sanitizing a sanitized message changes nothing.
C10_SanitizeIdempotent ==
    probe.stage = "twice" => probe.twice = probe.once

\* C10 witness: an Assistant message whose tool requests lost an entry and a
\* field in the first pass has been sanitized twice.
C10_Witness ==
    /\ probe.stage = "twice"
    /\ Role(probe.msg) = "assistant"
    /\ Get(probe.msg, "tool_calls", <<>>) = <<CALL_NONDICT, CALL_PLAIN>>
    /\ probe.once # probe.msg

\* The turn of session a ends on line 130: the payload is no JSON.
JsonFailure(a) ==
    /\ agent[a].pc = "record"
    /\ RecordRequest(a)
    /\ agent'[a].outcome = "json_error"

\* C9: a tool request whose arguments are no valid JSON ends the turn with
\* the exception; the /chat handler answers 500 and leaves the session and
\* its agent in the map; the agent then accepts a next chat, which appends
\* the User message and goes to query the service.
C9_JsonFailureIsTurnLevel ==
    [][/\ \A a \in Agents : JsonFailure(a) =>
            /\ cur = a
            /\ agent'[a].pc = "idle"
            /\ sessions' = sessions
            /\ a \in Range(sessions')
       /\ (ApiChatReturns /\ agent[cur].outcome = "json_error") =>
            /\ http'.status = 500
            /\ sessions' = sessions
            /\ cur \in Range(sessions')
            /\ agent'[cur].messages = agent[cur].messages
            /\ agent'[cur].pc = "idle"
            /\ \A u \in UTTERANCES :
                  /\ chat(agent'[cur], u).pc = "probe"
                  /\ chat(agent'[cur], u).messages =
                        Append(agent[cur].messages, UserMsg(u))]_vars

\* C9 witness: after a turn of a session failed on its first request's
\* payload and was answered 500, the next chat of that session has queried
\* the service.
C9_Witness ==
    /\ cur # None
    /\ agent[cur].calls = 1
    /\ agent[cur].tool_log = <<>>
    /\ Len(agent[cur].messages) >= 4
    /\ HasCalls(agent[cur].messages[3])
    /\ Role(agent[cur].messages[4]) = "user"

\* The messages a turn has appended to the history it started from.
TurnMessages(ag) == SubSeq(ag.messages, Len(ag.before) + 1, Len(ag.messages))

\* C11: after a turn that ended Exhausted the history is the history before
\* the turn, the User message, and the Assistant and Tool Result messages of
\* the MAX_TOOL_ROUNDS rounds; its last message is a Tool Result and the
\* fallback delivered to the caller is no message of it.
C11_FallbackNotAppended ==
    \A a \in Agents :
        agent[a].outcome = "exhausted" =>
            LET turn == TurnMessages(agent[a]) IN
            /\ DeliveredFallback(agent[a])
            /\ SubSeq(agent[a].messages, 1, Len(agent[a].before)) = agent[a].before
            /\ Len(turn) >= 3
            /\ turn[1] \in {UserMsg(u) : u \in UTTERANCES}
            /\ \A i \in 2..Len(turn) :
                  \/ Role(turn[i]) = "tool"
                  \/ Role(turn[i]) = "assistant" /\ HasCalls(turn[i])
            /\ Cardinality({i \in 1..Len(turn) : Role(turn[i]) = "assistant"})
                  = MAX_TOOL_ROUNDS
            /\ Role(turn[Len(turn)]) = "tool"
            /\ \A i \in 1..Len(agent[a].messages) :
                  agent[a].messages[i].content \notin {FALLBACK_CHAT, FALLBACK_STREAM}

\* C11 witness: chat returned the fallback after its rounds were used up.
C11_Witness ==
    \E a \in Agents :
        /\ agent[a].op = "chat"
        /\ agent[a].outcome = "exhausted"
        /\ agent[a].returned = FALLBACK_CHAT
        /\ Len(TurnMessages(agent[a])) = 1 + 2 * MAX_TOOL_ROUNDS

\* A step in which a /chat request is taken in hand: cur becomes its
\* session.
TakesChat == cur = None /\ cur' # None

\* C12: the session map never holds more than MAX_SESSIONS entries, each
\* key once, each with its agent.  A request that creates a session at the
\* ceiling evicts exactly the entry inserted earliest and keeps the others,
\* in order, with their agents; below the ceiling it evicts nothing.  A
\* request for a session in the map gets the existing agent and leaves the
\* map and every other agent as they were; /reset never changes the map.
C12_SessionCeiling ==
    /\ [](/\ Len(sessions) <= MAX_SESSIONS
          /\ Cardinality(Range(sessions)) = Len(sessions)
          /\ DOMAIN agent = Range(sessions))
    /\ [][TakesChat =>
             IF cur' \notin Range(sessions)
             THEN /\ sessions'[Len(sessions')] = cur'
                  /\ Len(agent'[cur'].messages) = 2
                  /\ agent'[cur'].messages[1] = SystemMsg
                  /\ agent'[cur'].tool_log = <<>>
                  /\ IF Len(sessions) = MAX_SESSIONS
                     THEN /\ Range(sessions) \ Range(sessions') = {sessions[1]}
                          /\ sessions' = Append(Tail(sessions), cur')
                     ELSE sessions' = Append(sessions, cur')
                  /\ \A a \in Range(sessions) \cap Range(sessions') :
                        agent'[a] = agent[a]
             ELSE /\ sessions' = sessions
                  /\ SubSeq(agent'[cur'].messages, 1, Len(agent[cur'].messages))
                        = agent[cur'].messages
                  /\ Len(agent'[cur'].messages) = Len(agent[cur'].messages) + 1
                  /\ agent'[cur'].tool_log = agent[cur'].tool_log
                  /\ \A a \in Range(sessions) \ {cur'} : agent'[a] = agent[a]]_vars
    /\ [][~TakesChat => sessions' = sessions]_vars

\* C12 witness: a request created a session at the ceiling and deleted one
\* key; the entry that had been inserted second is now the oldest and has
\* kept its conversation.
C12_Witness ==
    /\ Len(sessions) = MAX_SESSIONS
    /\ cur = sessions[Len(sessions)]
    /\ probe # Idle
    /\ Cardinality(probe.evicted) = 1
    /\ Len(agent[sessions[1]].messages) >= 2

\* The catalog's price of an id, 0 for an id that is no product.
PriceOf(id) ==
    CASE id \in {"gf-alpha", "GF-ALPHA"} -> 850000
      [] id \in {"gf-cell", "GF-CELL"} -> 300000
      [] id \in {"gj-001", "GJ-001"} -> 95000
      [] OTHER -> 0

\* C13: for a catalog product and a quantity q >= 1 the quote has the
\* product's price, subtotal = price * q, the tax nearest to 19% of the
\* subtotal (exactly 19% for these prices) and total = subtotal + tax; for
\* GF-ALPHA and q = 2 these are 1700000, 323000 and 2023000; for an id that
\* is no product the quote is an error result and the tool returns text.
\* The code breaks this for quantities whose tax no double holds exactly.
C13_QuoteArithmetic ==
    probe.stage = "quoted" =>
        LET q == probe.quantity
            quote == probe.quote
            price == PriceOf(probe.product_id)
        IN  /\ ~probe.tool.raised
            /\ IF price = 0
               THEN DOMAIN quote = {"error"}
               ELSE /\ "error" \notin DOMAIN quote
                    /\ quote.unit_price_clp = FromInt(price)
                    /\ quote.subtotal_neto = BigMul(FromInt(price), q)
                    /\ BigMul(FromInt(100), quote.iva_19)
                          = BigMul(FromInt(19), quote.subtotal_neto)
                    /\ quote.total_con_iva = BigAdd(quote.subtotal_neto, quote.iva_19)
                    /\ (price = 850000 /\ q = FromInt(2)) =>
                          /\ quote.subtotal_neto = FromInt(1700000)
                          /\ quote.iva_19 = FromInt(323000)
                          /\ quote.total_con_iva = FromInt(2023000)

\* The texts of a product that a query is matched against, as they are
\* written in the catalog.
SearchableText(p) ==
    JoinSpace(<< p.name, p.description, JoinSpace(p.tags), JoinSpace(p.spec_values),
                 JoinSpace(p.use_cases), p.category >>)

\* A product satisfies every filter that is provided.
Matches(p, query, category, max_price) ==
    /\ query = "" \/ In(Lower(query), Lower(SearchableText(p)))
    /\ category = "" \/ Lower(category) = Lower(p.category)
    /\ max_price = NoPrice \/ p.price <= max_price

\* C14: search_products returns, in catalog order, exactly the products
\* that satisfy every provided filter, the query being matched without
\* regard to case.  The code breaks this: the tags are not lower-cased, so a
\* query is not found in a stretch of the tags that holds a capital.
C14_SearchIsConjunctiveFilter ==
    probe.stage = "searched" =>
        probe.results =
            SelectSeq(CATALOG, LAMBDA p : Matches(p, probe.query, probe.category,
                                                  probe.max_price))

\* C15: a step of a turn or a reset on one agent object leaves the history
\* and the tool log of every other agent object as they were; no list
\* object belongs to two agent objects or serves as both lists of one; no
\* two keys of the session dict refer to the same agent object.
C15_NoSharedState ==
    /\ [](/\ \A o1, o2 \in DOMAIN agent :
                o1 # o2 =>
                    {agent[o1].messages, agent[o1].tool_log}
                        \cap {agent[o2].messages, agent[o2].tool_log} = {}
          /\ \A o \in DOMAIN agent : agent[o].messages # agent[o].tool_log
          /\ \A k1, k2 \in DOMAIN script : k1 # k2 => script[k1] # script[k2]
          /\ DOMAIN script = Range(sessions))
    /\ [][\A a \in DOMAIN agent :
             ShareStep(a) =>
                \A b \in DOMAIN agent \ {a} :
                    /\ b \in DOMAIN agent'
                    /\ probe'[agent'[b].messages] = probe[agent[b].messages]
                    /\ probe'[agent'[b].tool_log] = probe[agent[b].tool_log]]_vars

\* C15 witness: two sessions, each with its agent; the one has a turn's
\* messages and a logged tool, the other has just been reset.
C15_Witness ==
    /\ Len(sessions) = 2
    /\ LET a == script[sessions[1]]
           b == script[sessions[2]]
       IN  /\ Len(probe[agent[a].messages]) = MaxShareLen
           /\ probe[agent[a].tool_log] # <<>>
           /\ probe[agent[b].messages] = <<"system">>
           /\ sessions[1] # "u1"

\* The last n elements of a sequence.
LastN(seq, n) == SubSeq(seq, Len(seq) - n + 1, Len(seq))

\* The history and the tool log of an agent in the middle of a batch end
\* with the Assistant message of the batch, the Tool Results of its first
\* `answered` requests and the log entries of its first `logged` requests,
\* in the order of the requests.
BatchSoFar(ag, answered, logged) ==
    LET reqs == ag.tool_calls
        h == ag.messages
        at == Len(h) - answered
    IN  /\ at > 1
        /\ HasCalls(h[at])
        /\ [j \in 1..Len(h[at].tool_calls) |-> h[at].tool_calls[j].id]
              = [j \in 1..Len(reqs) |-> reqs[j].id]
        /\ \A j \in 1..answered :
              /\ Role(h[at + j]) = "tool"
              /\ h[at + j].tool_call_id = reqs[j].id
        /\ Len(ag.tool_log) >= logged
        /\ [j \in 1..logged |-> LastN(ag.tool_log, logged)[j].tool]
              = [j \in 1..logged |-> reqs[j].function.name]

\* C16: the requests of a batch are handled one after the other in the order
\* received; each is logged before it is executed and answered after; when
\* the last is answered the history ends with the Assistant message and the
\* k Tool Results in the order of the requests, the tool log with their k
\* names in that order; the service is not queried while a batch is open.
C16_BatchInOrder ==
    /\ [](\A a \in Agents :
            LET ag == agent[a] IN
            /\ ag.pc = "record" => /\ ag.idx \in 1..Len(ag.tool_calls)
                                   /\ BatchSoFar(ag, ag.idx - 1, ag.idx - 1)
            /\ ag.pc = "exec" => /\ ag.idx \in 1..Len(ag.tool_calls)
                                 /\ BatchSoFar(ag, ag.idx - 1, ag.idx))
    /\ [][\A a \in Agents :
            LET ag == agent[a]
                after == agent'[a]
                k == Len(ag.tool_calls)
            IN  /\ ag.pc = "record" /\ after.pc = "exec" =>
                    /\ after.messages = ag.messages
                    /\ Len(after.tool_log) = Len(ag.tool_log) + 1
                    /\ SubSeq(after.tool_log, 1, Len(ag.tool_log)) = ag.tool_log
                    /\ after.idx = ag.idx
                /\ ag.pc = "exec" /\ after.outcome \in {"running", "exhausted"} =>
                    /\ after.tool_log = ag.tool_log
                    /\ Len(after.messages) = Len(ag.messages) + 1
                    /\ SubSeq(after.messages, 1, Len(ag.messages)) = ag.messages
                    /\ after.calls = ag.calls
                    /\ IF ag.idx < k
                       THEN after.pc = "record" /\ after.idx = ag.idx + 1
                       ELSE /\ after.pc \in {"probe", "idle"}
                            /\ BatchSoFar([after EXCEPT !.tool_calls = ag.tool_calls],
                                          k, k)
                /\ after.calls # ag.calls /\ after.op = ag.op =>
                    ag.pc \notin {"record", "exec"}]_vars

\* C16 witness: a batch of two different tools has been logged and answered
\* in its order and the loop is back at the service call.
C16_Witness ==
    \E a \in Agents :
        LET ag == agent[a]
            h == ag.messages
            n == Len(h)
        IN  /\ ag.pc = "probe"
            /\ n >= 5
            /\ HasCalls(h[n - 2])
            /\ Len(h[n - 2].tool_calls) = 2
            /\ h[n - 2].tool_calls[1].function.name = "enviar_correo"
            /\ h[n - 2].tool_calls[2].function.name = "cotizar"
            /\ h[n - 1].tool_call_id = h[n - 2].tool_calls[1].id
            /\ h[n].tool_call_id = h[n - 2].tool_calls[2].id
            /\ h[n - 1].tool_call_id # h[n].tool_call_id
            /\ LastN(ag.tool_log, 2)[1].tool = "enviar_correo"
            /\ LastN(ag.tool_log, 2)[2].tool = "cotizar"

\* The fragments chat_stream yielded after its notices, one notice having
\* been yielded per request this turn logged: those of the final streaming
\* call.
FinalFragments(ag) ==
    SubSeq(ag.yielded, Len(ag.tool_log) - Len(ag.log_before) + 1, Len(ag.yielded))

\* C17: a turn that ended Final appended exactly one Assistant message
\* without tool requests, as its last message, and the content of it is the
\* text delivered: what chat returned, which is the content of the response
\* without tool requests or "" when that is absent; for chat_stream the
\* fragments yielded during the final streaming call, joined in order, none
\* of them empty.
C17_FinalMessageIsDelivered ==
    /\ [](\A a \in Agents :
            agent[a].outcome = "final" =>
                LET ag == agent[a]
                    turn == TurnMessages(ag)
                    plain == {i \in 1..Len(turn) :
                                Role(turn[i]) = "assistant" /\ ~HasCalls(turn[i])}
                    last == turn[Len(turn)]
                IN  /\ plain = {Len(turn)}
                    /\ DOMAIN last = {"role", "content"}
                    /\ ag.op = "chat" => last.content = ag.returned
                    /\ ag.op = "chat_stream" =>
                          /\ last.content = Join(FinalFragments(ag))
                          /\ \A i \in 1..Len(FinalFragments(ag)) :
                                FinalFragments(ag)[i] \in DELTAS \ {None, ""})
    /\ [][\A a \in Agents : \A c \in FINAL_CONTENTS :
            agent[a].op = "chat" /\ ProbeAnswers(a, FinalMessage(c)) =>
                /\ agent'[a].outcome = "final"
                /\ agent'[a].returned = (IF c = None THEN "" ELSE c)
                /\ agent'[a].messages =
                      Append(agent[a].messages,
                             [role |-> "assistant", content |-> agent'[a].returned])]_vars

\* C17 witness: a streamed turn used a tool, then delivered "Ho" and "la" and
\* stored "Hola".
C17_Witness ==
    \E a \in Agents :
        /\ agent[a].op = "chat_stream"
        /\ agent[a].outcome = "final"
        /\ Len(agent[a].yielded) = 3
        /\ FinalFragments(agent[a]) = <<"Ho", "la">>
        /\ agent[a].messages[Len(agent[a].messages)].content = "Hola"

\* The notices of the first k requests of a script.
NoticesOf(sc, k) ==
    [j \in 1..k |-> Notice(sc.requests[j].name, sc.requests[j].arguments)]

\* C18: run against the same scripted responses that request tools, chat
\* and a fully consumed chat_stream leave the same history and the same tool
\* log; chat_stream yields one notice per request it logged, in order, and
\* no other; the step that yields a notice is the one that logged the
\* request, and the tool has not run nor its Tool Result been appended then.
C18_StreamSameAsChatPlusNotices ==
    /\ [](Ended(agent[CHAT]) /\ Ended(agent[STREAM]) =>
            LET k == Len(agent[STREAM].tool_log)
                said == agent[STREAM].yielded
            IN  /\ agent[STREAM].messages = agent[CHAT].messages
                /\ agent[STREAM].tool_log = agent[CHAT].tool_log
                /\ agent[STREAM].outcome = agent[CHAT].outcome
                /\ Len(said) >= k
                /\ SubSeq(said, 1, k) = NoticesOf(script, k)
                /\ \A i \in (k + 1)..Len(said) :
                      said[i] \in (DELTAS \ {None, ""}) \cup {FALLBACK_STREAM})
    /\ [][LET ag == agent[STREAM]
              after == agent'[STREAM]
          IN  /\ ag.pc = "record" /\ Len(after.tool_log) > Len(ag.tool_log) =>
                  /\ after.yielded = Append(ag.yielded,
                                        NoticesOf(script, Len(after.tool_log))
                                            [Len(after.tool_log)])
                  /\ after.susp
                  /\ after.pc = "exec"
                  /\ after.messages = ag.messages
              /\ ag.pc = "exec" /\ after.messages # ag.messages =>
                  /\ Len(ag.yielded) = Len(ag.tool_log)
                  /\ Len(after.yielded) <= Len(ag.yielded) + 1
                  /\ after.tool_log = ag.tool_log]_vars

\* C18 witness: both runs ended after a batch of two requests and a final
\* answer; the streamed run yielded two notices and then the answer.
C18_Witness ==
    /\ Ended(agent[CHAT])
    /\ Ended(agent[STREAM])
    /\ script.sizes = <<2>>
    /\ script.requests[1] # script.requests[2]
    /\ Len(agent[STREAM].tool_log) = 2
    /\ Len(agent[STREAM].messages) = 6
    /\ agent[STREAM].yielded = NoticesOf(script, 2) \o <<"Ho", "la">>

IsPrefix(s, t) == Len(s) <= Len(t) /\ SubSeq(t, 1, Len(s)) = s

\* C19: every step leaves the history and the tool log it found as a prefix
\* of what it leaves, unless it is a reset; so every step of chat and
\* chat_stream, however the turn ends, only appends, and a reset leaves the
\* System message and an empty log.
C19_AppendOnlyExceptReset ==
    [][\A a \in Agents :
          /\ \/ /\ IsPrefix(agent[a].messages, agent'[a].messages)
                /\ IsPrefix(agent[a].tool_log, agent'[a].tool_log)
             \/ ResetCall(a)
          /\ agent'[a].op \in {"chat", "chat_stream"} =>
                /\ IsPrefix(agent[a].messages, agent'[a].messages)
                /\ IsPrefix(agent[a].tool_log, agent'[a].tool_log)
          /\ ResetCall(a) =>
                /\ agent'[a].messages = <<SystemMsg>>
                /\ agent'[a].tool_log = <<>>]_vars

\* C19 witness: a turn failed at the service after a round of tools; what it
\* had appended and logged by then is still there.
C19_Witness ==
    \E a \in Agents :
        /\ agent[a].outcome = "service_error"
        /\ Len(agent[a].before) >= 3
        /\ IsPrefix(agent[a].before, agent[a].messages)
        /\ Len(agent[a].messages) >= Len(agent[a].before) + 3
        /\ IsPrefix(agent[a].log_before, agent[a].tool_log)
        /\ Len(agent[a].tool_log) > Len(agent[a].log_before)

\* C20: every message of a history is left as it is by _sanitize_message,
\* so the transcript sent to the service is the history itself; an
\* Assistant message has a role, a content and, only if it has requests,
\* tool_calls, each of them with an id, a type and a function and no more.
C20_HistoryIsSanitized ==
    \A a \in Agents :
        LET h == agent[a].messages IN
        /\ \A i \in 1..Len(h) : _sanitize_message(h[i]) = h[i]
        /\ _clean_messages(agent[a]) = h
        /\ \A i \in 1..Len(h) :
              Role(h[i]) = "assistant" =>
                 /\ {"role", "content"} \subseteq DOMAIN h[i]
                 /\ DOMAIN h[i] \subseteq {"role", "content", "tool_calls"}
                 /\ h[i].content # None
                 /\ HasCalls(h[i]) =>
                       /\ h[i].tool_calls # <<>>
                       /\ \A c \in 1..Len(h[i].tool_calls) :
                             DOMAIN h[i].tool_calls[c] = {"id", "type", "function"}

\* C20 witness: a history with an Assistant message with two requests, their
\* Tool Results, and the final answer to a response whose content was absent
\* or empty.
C20_Witness ==
    \E a \in Agents :
        LET h == agent[a].messages IN
        /\ Len(h) = 6
        /\ HasCalls(h[3])
        /\ Len(h[3].tool_calls) = 2
        /\ h[3].content = ""
        /\ Role(h[4]) = "tool"
        /\ Role(h[5]) = "tool"
        /\ h[6] = [role |-> "assistant", content |-> ""]
        /\ agent[a].pc = "idle"

\* The number of Tool Results in a history.
ResultCount(h) == Cardinality(ToolResultsOf(h))

\* The log entries and the Tool Results a turn has added.
LoggedInTurn(ag) == Len(ag.tool_log) - Len(ag.log_before)

AnsweredInTurn(ag) == ResultCount(ag.messages) - ResultCount(ag.before)

\* C21 as stated: the tool log has at least as many entries as the history
\* has Tool Results, and as many at the end of every turn in which no tool
\* raised.  Not so for a streamed turn the caller drops at a notice, nor
\* for any turn after a turn that left an entry unanswered.
C21_LogEqualsResultsUnlessToolRaised ==
    \A a \in Agents :
        /\ Len(agent[a].tool_log) >= ResultCount(agent[a].messages)
        /\ (Ended(agent[a]) /\ agent[a].outcome # "tool_error") =>
              Len(agent[a].tool_log) = ResultCount(agent[a].messages)

\* C21 amended: the tool log has at least as many entries as the history
\* has Tool Results; a turn that ends without a tool having raised and
\* without having been dropped by its caller has logged as many requests as
\* it has appended Tool Results; a turn ended by a tool that raised has
\* logged one more; a streamed turn dropped by its caller has logged as
\* many or one more.
C21_LogCoversResults ==
    \A a \in Agents :
        LET ag == agent[a] IN
        /\ Len(ag.tool_log) >= ResultCount(ag.messages)
        /\ ag.op = "reset" => ag.tool_log = <<>> /\ ResultCount(ag.messages) = 0
        /\ Ended(ag) =>
              /\ ag.outcome \notin {"tool_error", "abandoned"} =>
                    LoggedInTurn(ag) = AnsweredInTurn(ag)
              /\ ag.outcome = "tool_error" =>
                    LoggedInTurn(ag) = AnsweredInTurn(ag) + 1
              /\ ag.outcome = "abandoned" =>
                    LoggedInTurn(ag) - AnsweredInTurn(ag) \in {0, 1}

\* C21 witness: the second tool of a batch raised; the turn logged two
\* requests and appended one Tool Result.
C21_Witness ==
    \E a \in Agents :
        /\ agent[a].outcome = "tool_error"
        /\ LoggedInTurn(agent[a]) = 2
        /\ AnsweredInTurn(agent[a]) = 1
        /\ Role(agent[a].messages[Len(agent[a].messages)]) = "tool"

\* The number of User messages in a history.
UserCount(h) == Cardinality({i \in 1..Len(h) : Role(h[i]) = "user"})

\* An Assistant message that answers: one without tool requests.
IsAnswer(m) == Role(m) = "assistant" /\ ~HasCalls(m)

Unanswered == {"service_error", "json_error", "tool_error", "exhausted"}

\* C22: the User messages of a history are as many as the turns started
\* since the last reset, which is the count the summary reports; a turn
\* that ended in a failure or exhausted has left its User message and no
\* answer after it; starting a turn appends its User message to what was
\* there, before its first service call; so the turn after a failed one
\* leaves two User messages with no answer between them.
C22_UserMessagesCountTurns ==
    /\ [](\A a \in Agents :
            LET ag == agent[a]
                turn == TurnMessages(ag)
            IN  /\ UserCount(ag.messages) = ag.turns
                /\ get_conversation_summary(ag) =
                      "Conversación: " \o ToString(ag.turns)
                          \o " mensajes del usuario, "
                          \o ToString(Len(ag.tool_log)) \o " herramientas usadas."
                /\ (Ended(ag) /\ ag.outcome \in Unanswered) =>
                      /\ turn # <<>>
                      /\ Role(turn[1]) = "user"
                      /\ \A i \in 2..Len(turn) :
                            Role(turn[i]) # "user" /\ ~IsAnswer(turn[i])
                /\ ag.calls > 0 =>
                      /\ Len(ag.messages) > Len(ag.before)
                      /\ Role(ag.messages[Len(ag.before) + 1]) = "user")
    /\ [][\A a \in Agents :
            agent'[a].turns = agent[a].turns + 1 =>
                /\ Len(agent'[a].messages) = Len(agent[a].messages) + 1
                /\ SubSeq(agent'[a].messages, 1, Len(agent[a].messages))
                      = agent[a].messages
                /\ Role(agent'[a].messages[Len(agent'[a].messages)]) = "user"
                /\ agent'[a].calls = 0]_vars

\* C22 witness: a turn failed at its first service call, after a turn that
\* stopped at arguments that do not decode, and a third turn has been
\* answered: three User messages, no answer before the last.
C22_Witness ==
    \E a \in Agents :
        LET h == agent[a].messages IN
        /\ agent[a].turns = 3
        /\ agent[a].outcome = "final"
        /\ Len(h) = 6
        /\ Role(h[2]) = "user"
        /\ HasCalls(h[3])
        /\ Role(h[4]) = "user"
        /\ Role(h[5]) = "user"
        /\ IsAnswer(h[6])

\* C23: calling chat_stream appends nothing and logs nothing, and nothing
\* is appended or logged until the generator is pulled; the first pull
\* appends the User message; a generator dropped without a pull leaves the
\* agent as it was; a caller that stops pulling during the final streaming
\* call leaves a history without an answer for that turn, which ends with
\* the User message or a Tool Result.
C23_StreamIsLazy ==
    /\ [](\A a \in Agents :
            LET ag == agent[a]
                turn == TurnMessages(ag)
            IN  /\ ag.pc = "created" =>
                      /\ ag.messages = ag.before
                      /\ ag.tool_log = ag.log_before
                      /\ ag.calls = 0
                /\ (ag.outcome = "abandoned" /\ ag.saw_final) =>
                      /\ turn # <<>>
                      /\ Role(turn[1]) = "user"
                      /\ \A i \in 1..Len(turn) : ~IsAnswer(turn[i])
                      /\ Role(turn[Len(turn)]) \in {"user", "tool"})
    /\ [][\A a \in Agents :
            LET ag == agent[a]
                after == agent'[a]
            IN  /\ after.pc = "created" =>
                      /\ after.messages = ag.messages
                      /\ after.tool_log = ag.tool_log
                /\ ag.pc = "created" /\ after.outcome = "abandoned" =>
                      /\ after.messages = ag.messages
                      /\ after.tool_log = ag.tool_log
                /\ (/\ ag.pc = "created"
                    /\ after.pc # "created"
                    /\ after.outcome # "abandoned") =>
                      /\ after.messages = Append(ag.messages, UserMsg(ag.arg))
                      /\ after.tool_log = ag.tool_log
                /\ ag.pc = "chunks" /\ after.outcome = "abandoned" =>
                      /\ after.messages = ag.messages
                      /\ after.tool_log = ag.tool_log]_vars

\* C23 witness: after a round of tools the caller pulled both fragments of
\* the final streaming call and then dropped the generator; the history
\* ends with the Tool Result.
C23_Witness ==
    \E a \in Agents :
        LET ag == agent[a] IN
        /\ ag.outcome = "abandoned"
        /\ ag.saw_final
        /\ FinalFragments(ag) = <<"Ho", "la">>
        /\ Len(TurnMessages(ag)) = 3
        /\ Role(ag.messages[Len(ag.messages)]) = "tool"

====
